---- MODULE Spec2Model ----
(***************************************************************************)
(* Model of the order-calculation engine (OrderCalculator) of sage_bg and  *)
(* of its collaborators.  The specifications of the module: CalcSpec (one *)
(* call of calculateOrders), ConvSpec (the two amount conversions over     *)
(* IEEE doubles), CallsSpec (concurrent calls on one calculator instance), *)
(* Spec (the socket server receiving createOrder events), StoreSpec (the   *)
(* socket server with stored orders and all its order events), AnswerSpec  *)
(* (the same with the fairness of the event loop), PoolSpec                *)
(* (DatabaseClient.query over the connection pool) and AdvisorSpec         *)
(* (AISuggestionService.generateTradingSuggestions).                       *)
(*                                                                         *)
(* Numbers.  The program computes with JavaScript numbers (IEEE doubles).  *)
(* The model represents a number by an exact decimal                       *)
(* [m |-> mantissa, e |-> exp], value m * 10^e, kept normalised (m has no  *)
(* trailing zero, zero is [m |-> 0, e |-> 0]).  The request values of the  *)
(* checked instance are multiples of 0.5: they, their products and the     *)
(* products scaled by 10^decimals are whole multiples of 1/8 far below     *)
(* 2^53, so each is a double and the double operations *, - and            *)
(* Math.floor return exactly the values computed here.  A quotient is      *)
(* kept exact (the double is the one nearest to it): by a power of ten as  *)
(* a decimal, in general (riskRewardRatio) as a reduced fraction [n, d].   *)
(* An absent optional field or leg is the value Undefined.                 *)
(***************************************************************************)
EXTENDS Integers, Sequences, FiniteSets, TLC

VARIABLES
    params,     \* the request calculateOrders is called with
    outcome,    \* Undefined before the call; then the Error thrown or the OrderCalculations returned
    literal,    \* the decimal amount a caller writes; convertToLamports receives the double nearest to it
    scale,      \* the decimals both conversions are called with
    scaled,     \* Undefined, then the string convertToLamports returned
    restored,   \* Undefined, then the double convertFromLamports returned for that string
    calculator, \* the fields of the one OrderCalculator instance all calls run on
    frames,     \* the calls of calculateOrders in progress: request, position, locals, result
    handlers,   \* the socket event handlers started so far: event, data, position, locals
    gatewayLog, \* the requests sent to the Jupiter gateway, in the order sent
    ordersTable,\* the rows of table orders, in the order inserted (id = position)
    emitted,    \* the events emitted to the client sockets, in the order emitted
    advisor,    \* one call of generateTradingSuggestions: request, position, price, AI answer, result
    pool        \* the pg pool of DatabaseClient: clients checked out, queries in progress, counts

calcVars == <<params, outcome>>
convVars == <<literal, scale, scaled, restored>>
callVars == <<calculator, frames>>
serverVars == <<handlers, gatewayLog, ordersTable, emitted>>
advisorVars == <<advisor>>
poolVars == <<pool>>
vars == <<calcVars, convVars, callVars, serverVars, advisorVars, poolVars>>

\* what each specification leaves alone
notCalcVars == <<convVars, callVars, serverVars, advisorVars, poolVars>>
notConvVars == <<calcVars, callVars, serverVars, advisorVars, poolVars>>
notCallVars == <<calcVars, convVars, serverVars, advisorVars, poolVars>>
notServerVars == <<calcVars, convVars, callVars, advisorVars, poolVars>>
notAdvisorVars == <<calcVars, convVars, callVars, serverVars, poolVars>>
notPoolVars == <<calcVars, convVars, callVars, serverVars, advisorVars>>

(***************************************************************************)
(* Bounds of the checked instance.                                         *)
(***************************************************************************)
MaxTick == 4        \* request prices and amounts are k * 0.5 for k in -1..MaxTick
MaxDecimals == 1    \* supplied inputDecimals / outputDecimals range over 0..MaxDecimals
MaxCents == 100     \* converted amounts are n / 100 for n in 0..MaxCents (and one huge amount)
MaxScale == 2       \* the conversions are called with decimals in 0..MaxScale
NumCalls == 2       \* calls of calculateOrders in progress at once
MaxEvents == 1      \* socket events a behaviour of the server receives
MaxStoreEvents == 2 \* events a behaviour of the server with stored orders receives
MaxQueries == 3     \* calls of DatabaseClient.query in a behaviour of the pool
PoolSize == 2       \* clients of the pg pool

(***************************************************************************)
(* JavaScript values.                                                      *)
(***************************************************************************)
Undefined == [undef |-> TRUE]

RECURSIVE Pow10(_)
Pow10(k) == IF k <= 0 THEN 1 ELSE 10 * Pow10(k - 1)

RECURSIVE Norm(_, _)
Norm(m, e) ==
    IF m = 0 THEN [m |-> 0, e |-> 0]
    ELSE IF m % 10 = 0 THEN Norm(m \div 10, e + 1)
    ELSE [m |-> m, e |-> e]

Min(a, b) == IF a <= b THEN a ELSE b

Abs(n) == IF n < 0 THEN -n ELSE n

RECURSIVE Gcd(_, _)
Gcd(a, b) == IF b = 0 THEN a ELSE Gcd(b, a % b)

\* mantissa of x when written at exponent k (k <= x.e)
Mant(x, k) == x.m * Pow10(x.e - k)

\* the integer a whole-valued number denotes
ToInt(x) == Mant(x, 0)

\* a * b
NumMul(a, b) == Norm(a.m * b.m, a.e + b.e)

\* a - b
NumSub(a, b) ==
    LET k == Min(a.e, b.e) IN Norm(Mant(a, k) - Mant(b, k), k)

\* a + b
NumAdd(a, b) ==
    LET k == Min(a.e, b.e) IN Norm(Mant(a, k) + Mant(b, k), k)

\* a <= b, a < b
NumLe(a, b) == LET k == Min(a.e, b.e) IN Mant(a, k) <= Mant(b, k)
NumLt(a, b) == LET k == Min(a.e, b.e) IN Mant(a, k) < Mant(b, k)

Zero == Norm(0, 0)

\* a / b for b > 0, as a reduced fraction
NumDiv(a, b) ==
    LET k == Min(a.e, b.e)
        n == Mant(a, k)
        d == Mant(b, k)
        g == Gcd(Abs(n), Abs(d))
    IN  [n |-> n \div g, d |-> d \div g]

\* Math.pow(10, decimals)
MathPow10(decimals) == Norm(1, ToInt(decimals))

\* x / Math.pow(10, decimals)
NumDivPow10(x, decimals) == Norm(x.m, x.e - ToInt(decimals))

\* Math.floor(x)
MathFloor(x) ==
    IF x.e >= 0 THEN x ELSE Norm(x.m \div Pow10(-x.e), 0)

\* JavaScript truthiness of an optional number: undefined and 0 are falsy
Truthy(x) == x # Undefined /\ x # Zero

RECURSIVE NumDigits(_)
NumDigits(n) == IF n < 10 THEN 1 ELSE 1 + NumDigits(n \div 10)

RECURSIVE LeadingDigit(_)
LeadingDigit(n) == IF n < 10 THEN n ELSE LeadingDigit(n \div 10)

\* Number.prototype.toString of a whole number: plain digits below 1e21,
\* exponent notation ("1.5e+21") from there on
NumberToString(x) ==
    [plain |-> NumDigits(Abs(x.m)) + x.e <= 21, num |-> x]

\* parseInt of such a string: reads digits up to the first non-digit
ParseInt(s) ==
    IF s.plain THEN s.num
    ELSE Norm((IF s.num.m < 0 THEN -1 ELSE 1) * LeadingDigit(Abs(s.num.m)), 0)

\* Number.prototype.toFixed(digits): rounds to that many fractional digits
ToFixed(x, digits) ==
    IF x.e >= -digits THEN x
    ELSE LET p == Pow10(-digits - x.e)
             q == (2 * Abs(x.m) + p) \div (2 * p)
         IN  Norm((IF x.m < 0 THEN -q ELSE q), -digits)

(***************************************************************************)
(* OrderCalculator                                                         *)
(***************************************************************************)
defaultInputDecimals == 9
defaultOutputDecimals == 6

\* a destructuring without defaults: an omitted precision counts as 0
OrDefault_NoDefault(v, dflt) == IF v = Undefined THEN Norm(0, 0) ELSE v

\* destructuring default: applies to undefined only
OrDefault(v, dflt) == IF v = Undefined THEN Norm(dflt, 0) ELSE v

Throw(msg) == [threw |-> TRUE, message |-> msg]

convertToLamports(amount, decimals) ==
    NumberToString(MathFloor(NumMul(amount, MathPow10(decimals))))

convertFromLamports(lamports, decimals) ==
    NumDivPow10(ParseInt(lamports), decimals)

calculateOrderAmounts(inputAmount, targetPrice, inputDecimals, outputDecimals) ==
    LET makingAmount == convertToLamports(inputAmount, inputDecimals)
        expectedOutput == NumMul(inputAmount, targetPrice)
        takingAmount == convertToLamports(expectedOutput, outputDecimals)
    IN  [makingAmount |-> makingAmount,
         takingAmount |-> takingAmount,
         expectedOutput |-> expectedOutput]

\* validateInputs without the currentPrice check
validateInputs_NoCurrentPriceCheck(p) ==
    IF NumLe(p.amountToSell, Zero)
        THEN Throw("Amount to sell must be greater than 0")
    ELSE IF NumLe(p.buyPrice, Zero)
        THEN Throw("Buy price must be greater than 0")
    ELSE IF Truthy(p.takeProfitPrice) /\ NumLe(p.takeProfitPrice, p.buyPrice)
        THEN Throw("Take profit price must be greater than buy price")
    ELSE IF Truthy(p.stopLossPrice) /\ NumLe(p.buyPrice, p.stopLossPrice)
        THEN Throw("Stop loss price must be less than buy price")
    ELSE IF /\ Truthy(p.takeProfitPrice)
            /\ Truthy(p.stopLossPrice)
            /\ NumLe(p.takeProfitPrice, p.stopLossPrice)
        THEN Throw("Take profit price must be greater than stop loss price")
    ELSE Undefined

\* validateInputs comparing stopLossPrice > buyPrice instead of >=
validateInputs_StrictStopLoss(p) ==
    IF NumLe(p.amountToSell, Zero)
        THEN Throw("Amount to sell must be greater than 0")
    ELSE IF NumLe(p.buyPrice, Zero)
        THEN Throw("Buy price must be greater than 0")
    ELSE IF NumLe(p.currentPrice, Zero)
        THEN Throw("Current price must be greater than 0")
    ELSE IF Truthy(p.takeProfitPrice) /\ NumLe(p.takeProfitPrice, p.buyPrice)
        THEN Throw("Take profit price must be greater than buy price")
    ELSE IF Truthy(p.stopLossPrice) /\ NumLt(p.buyPrice, p.stopLossPrice)
        THEN Throw("Stop loss price must be less than buy price")
    ELSE IF /\ Truthy(p.takeProfitPrice)
            /\ Truthy(p.stopLossPrice)
            /\ NumLe(p.takeProfitPrice, p.stopLossPrice)
        THEN Throw("Take profit price must be greater than stop loss price")
    ELSE Undefined

validateInputs(p) ==
    IF NumLe(p.amountToSell, Zero)
        THEN Throw("Amount to sell must be greater than 0")
    ELSE IF NumLe(p.buyPrice, Zero)
        THEN Throw("Buy price must be greater than 0")
    ELSE IF NumLe(p.currentPrice, Zero)
        THEN Throw("Current price must be greater than 0")
    ELSE IF Truthy(p.takeProfitPrice) /\ NumLe(p.takeProfitPrice, p.buyPrice)
        THEN Throw("Take profit price must be greater than buy price")
    ELSE IF Truthy(p.stopLossPrice) /\ NumLe(p.buyPrice, p.stopLossPrice)
        THEN Throw("Stop loss price must be less than buy price")
    ELSE IF /\ Truthy(p.takeProfitPrice)
            /\ Truthy(p.stopLossPrice)
            /\ NumLe(p.takeProfitPrice, p.stopLossPrice)
        THEN Throw("Take profit price must be greater than stop loss price")
    ELSE Undefined

\* calculateBuyOrder reading expectedOutputAmount back from the scaled takingAmount
calculateBuyOrder_Reconstructed(p) ==
    LET inputDecimals == OrDefault(p.inputDecimals, defaultInputDecimals)
        outputDecimals == OrDefault(p.outputDecimals, defaultOutputDecimals)
        amounts == calculateOrderAmounts(p.amountToSell, p.buyPrice,
                                         inputDecimals, outputDecimals)
    IN  [type |-> "BUY",
         makingAmount |-> amounts.makingAmount,
         takingAmount |-> amounts.takingAmount,
         targetPrice |-> p.buyPrice,
         expectedOutputAmount |-> convertFromLamports(amounts.takingAmount, outputDecimals),
         description |-> <<"Buy", p.amountToSell, "tokens at", p.buyPrice, "price">>]

calculateBuyOrder(p) ==
    LET inputDecimals == OrDefault(p.inputDecimals, defaultInputDecimals)
        outputDecimals == OrDefault(p.outputDecimals, defaultOutputDecimals)
        amounts == calculateOrderAmounts(p.amountToSell, p.buyPrice,
                                         inputDecimals, outputDecimals)
    IN  [type |-> "BUY",
         makingAmount |-> amounts.makingAmount,
         takingAmount |-> amounts.takingAmount,
         targetPrice |-> p.buyPrice,
         expectedOutputAmount |-> amounts.expectedOutput,
         description |-> <<"Buy", p.amountToSell, "tokens at", p.buyPrice, "price">>]

\* calculateTakeProfitOrder selling amountToSell at the buy leg's decimals
calculateTakeProfitOrder_Unflipped(p) ==
    LET inputDecimals == OrDefault(p.inputDecimals, defaultInputDecimals)
        outputDecimals == OrDefault(p.outputDecimals, defaultOutputDecimals)
        expectedOutputFromBuy == NumMul(p.amountToSell, p.buyPrice)
        amounts == calculateOrderAmounts(p.amountToSell, p.takeProfitPrice,
                                         inputDecimals, outputDecimals)
    IN  IF ~Truthy(p.takeProfitPrice)
        THEN Throw("Take profit price is required for take profit order calculation")
        ELSE [type |-> "TAKE_PROFIT",
              makingAmount |-> amounts.makingAmount,
              takingAmount |-> amounts.takingAmount,
              targetPrice |-> p.takeProfitPrice,
              expectedOutputAmount |-> amounts.expectedOutput,
              description |-> <<"Sell", ToFixed(expectedOutputFromBuy, 6), "tokens at",
                                p.takeProfitPrice, "price (take profit)">>]

calculateTakeProfitOrder(p) ==
    LET inputDecimals == OrDefault(p.inputDecimals, defaultInputDecimals)
        outputDecimals == OrDefault(p.outputDecimals, defaultOutputDecimals)
        expectedOutputFromBuy == NumMul(p.amountToSell, p.buyPrice)
        amounts == calculateOrderAmounts(expectedOutputFromBuy, p.takeProfitPrice,
                                         outputDecimals, inputDecimals)
    IN  IF ~Truthy(p.takeProfitPrice)
        THEN Throw("Take profit price is required for take profit order calculation")
        ELSE [type |-> "TAKE_PROFIT",
              makingAmount |-> amounts.makingAmount,
              takingAmount |-> amounts.takingAmount,
              targetPrice |-> p.takeProfitPrice,
              expectedOutputAmount |-> amounts.expectedOutput,
              description |-> <<"Sell", ToFixed(expectedOutputFromBuy, 6), "tokens at",
                                p.takeProfitPrice, "price (take profit)">>]

\* calculateStopLossOrder with the decimals not swapped
calculateStopLossOrder_Unswapped(p) ==
    LET inputDecimals == OrDefault(p.inputDecimals, defaultInputDecimals)
        outputDecimals == OrDefault(p.outputDecimals, defaultOutputDecimals)
        expectedOutputFromBuy == NumMul(p.amountToSell, p.buyPrice)
        amounts == calculateOrderAmounts(expectedOutputFromBuy, p.stopLossPrice,
                                         inputDecimals, outputDecimals)
    IN  IF ~Truthy(p.stopLossPrice)
        THEN Throw("Stop loss price is required for stop loss order calculation")
        ELSE [type |-> "STOP_LOSS",
              makingAmount |-> amounts.makingAmount,
              takingAmount |-> amounts.takingAmount,
              targetPrice |-> p.stopLossPrice,
              expectedOutputAmount |-> amounts.expectedOutput,
              description |-> <<"Sell", ToFixed(expectedOutputFromBuy, 6), "tokens at",
                                p.stopLossPrice, "price (stop loss)">>]

calculateStopLossOrder(p) ==
    LET inputDecimals == OrDefault(p.inputDecimals, defaultInputDecimals)
        outputDecimals == OrDefault(p.outputDecimals, defaultOutputDecimals)
        expectedOutputFromBuy == NumMul(p.amountToSell, p.buyPrice)
        amounts == calculateOrderAmounts(expectedOutputFromBuy, p.stopLossPrice,
                                         outputDecimals, inputDecimals)
    IN  IF ~Truthy(p.stopLossPrice)
        THEN Throw("Stop loss price is required for stop loss order calculation")
        ELSE [type |-> "STOP_LOSS",
              makingAmount |-> amounts.makingAmount,
              takingAmount |-> amounts.takingAmount,
              targetPrice |-> p.stopLossPrice,
              expectedOutputAmount |-> amounts.expectedOutput,
              description |-> <<"Sell", ToFixed(expectedOutputFromBuy, 6), "tokens at",
                                p.stopLossPrice, "price (stop loss)">>]

\* calculateSummary dividing the potential loss by the potential profit
calculateSummary_InvertedRatio(buyOrder, takeProfitOrder, stopLossOrder) ==
    LET orders == SelectSeq(<<buyOrder, takeProfitOrder, stopLossOrder>>,
                            LAMBDA o : o # Undefined)
        potentialProfit == NumSub(takeProfitOrder.targetPrice, buyOrder.targetPrice)
        potentialLoss == NumSub(buyOrder.targetPrice, stopLossOrder.targetPrice)
    IN  [totalOrders |-> Len(orders),
         totalInputAmount |->
             NumAdd(Zero, convertFromLamports(buyOrder.makingAmount, Norm(9, 0))),
         totalExpectedOutput |-> NumAdd(Zero, buyOrder.expectedOutputAmount),
         riskRewardRatio |->
             IF takeProfitOrder # Undefined /\ stopLossOrder # Undefined
             THEN IF NumLt(Zero, potentialLoss) /\ NumLt(Zero, potentialProfit)
                  THEN NumDiv(potentialLoss, potentialProfit)
                  ELSE Undefined
             ELSE Undefined]

calculateSummary(buyOrder, takeProfitOrder, stopLossOrder) ==
    LET orders == SelectSeq(<<buyOrder, takeProfitOrder, stopLossOrder>>,
                            LAMBDA o : o # Undefined)
        \* the forEach adds only for order.type === 'BUY'; buyOrder is the one such leg
        totalInputAmount ==
            NumAdd(Zero, convertFromLamports(buyOrder.makingAmount, Norm(9, 0)))
        totalExpectedOutput == NumAdd(Zero, buyOrder.expectedOutputAmount)
        potentialProfit == NumSub(takeProfitOrder.targetPrice, buyOrder.targetPrice)
        potentialLoss == NumSub(buyOrder.targetPrice, stopLossOrder.targetPrice)
        riskRewardRatio ==
            IF takeProfitOrder # Undefined /\ stopLossOrder # Undefined
            THEN IF NumLt(Zero, potentialLoss)
                 THEN NumDiv(potentialProfit, potentialLoss)
                 ELSE Undefined
            ELSE Undefined
    IN  [totalOrders |-> Len(orders),
         totalInputAmount |-> totalInputAmount,
         totalExpectedOutput |-> totalExpectedOutput,
         riskRewardRatio |-> riskRewardRatio]

calculateOrders(p) ==
    LET validation == validateInputs(p)
        buyOrder == calculateBuyOrder(p)
        wantTakeProfit ==
            Truthy(p.takeProfitPrice) /\ NumLt(p.buyPrice, p.takeProfitPrice)
        takeProfitOrder ==
            IF wantTakeProfit THEN calculateTakeProfitOrder(p) ELSE Undefined
        wantStopLoss ==
            Truthy(p.stopLossPrice) /\ NumLt(p.stopLossPrice, p.buyPrice)
        stopLossOrder ==
            IF wantStopLoss THEN calculateStopLossOrder(p) ELSE Undefined
    IN  IF validation # Undefined THEN validation
        ELSE [threw |-> FALSE,
              buyOrder |-> buyOrder,
              takeProfitOrder |-> takeProfitOrder,
              stopLossOrder |-> stopLossOrder,
              summary |-> calculateSummary(buyOrder, takeProfitOrder, stopLossOrder)]

(***************************************************************************)
(* Requests                                                                *)
(***************************************************************************)
Tick(k) == Norm(5 * k, -1)

Quantities == {Tick(k) : k \in -1 .. MaxTick}
OptionalQuantities == Quantities \cup {Undefined}
CurrentPrices == {Tick(-1), Tick(0), Tick(2)}
OptionalDecimals == {Norm(d, 0) : d \in 0 .. MaxDecimals} \cup {Undefined}

\* the order of the test client (its calculation fields)
testOrderData ==
    [currentPrice |-> Norm(100, 0),
     buyPrice |-> Norm(95, 0),
     takeProfitPrice |-> Norm(110, 0),
     stopLossPrice |-> Norm(85, 0),
     amountToSell |-> Norm(1, 0),
     inputDecimals |-> Norm(9, 0),
     outputDecimals |-> Norm(6, 0)]

Requests ==
    [currentPrice : CurrentPrices,
     buyPrice : Quantities,
     takeProfitPrice : OptionalQuantities,
     stopLossPrice : OptionalQuantities,
     amountToSell : Quantities,
     inputDecimals : OptionalDecimals,
     outputDecimals : OptionalDecimals]
    \cup {testOrderData}

(***************************************************************************)
(* The calculator as a state machine.  calculateOrders is a pure, single-  *)
(* shot computation: a behaviour starts with some request handed to it     *)
(* and its one step is the call itself.                                    *)
(***************************************************************************)
\* new OrderCalculator()
NewCalculator ==
    [defaultInputDecimals |-> defaultInputDecimals,
     defaultOutputDecimals |-> defaultOutputDecimals]

\* no single call, no conversion, no concurrent calls under way
CalcIdle ==
    /\ params = Undefined
    /\ outcome = Undefined

ConvIdle ==
    /\ literal = Undefined
    /\ scale = Undefined
    /\ scaled = Undefined
    /\ restored = Undefined

CallsIdle ==
    /\ calculator = NewCalculator
    /\ frames = <<>>

\* the server as constructed: no event received, nothing sent, empty table
ServerIdle ==
    /\ handlers = <<>>
    /\ gatewayLog = <<>>
    /\ ordersTable = <<>>
    /\ emitted = <<>>

\* no suggestion requested; no query issued
AdvisorIdle == advisor = Undefined

PoolIdle == pool = Undefined

CalcInit ==
    /\ params \in Requests
    /\ outcome = Undefined
    /\ ConvIdle
    /\ CallsIdle
    /\ ServerIdle
    /\ AdvisorIdle
    /\ PoolIdle

CalculateOrdersCall ==
    /\ params # Undefined
    /\ outcome = Undefined
    /\ outcome' = calculateOrders(params)
    /\ UNCHANGED <<params, notCalcVars>>

CalcNext == CalculateOrdersCall

CalcSpec == CalcInit /\ [][CalcNext]_vars

(***************************************************************************)
(* IEEE 754 doubles.  Outside the multiples of 0.5 a request amount is not *)
(* a double and amount * Math.pow(10, decimals) is rounded, so the two     *)
(* conversions are also modelled over the doubles themselves.  A           *)
(* non-negative double is [bits |-> b, exp |-> e], value b * 2^e, with b   *)
(* the binary digits of an odd natural number, most significant first, of  *)
(* at most 53 digits; zero is [bits |-> <<>>, exp |-> 0].  Every operation *)
(* computes its exact result on digit sequences and rounds it to the       *)
(* nearest double, ties to even, as the hardware does.  Subnormals and     *)
(* overflow do not arise for the amounts of the checked instance.          *)
(***************************************************************************)
SignificandBits == 53

Front(seq) == SubSeq(seq, 1, Len(seq) - 1)
Last(seq) == seq[Len(seq)]

\* binary digits of the natural number n
RECURSIVE NatBits(_)
NatBits(n) == IF n = 0 THEN <<>> ELSE Append(NatBits(n \div 2), n % 2)

\* the natural number with these binary digits
RECURSIVE BitsNat(_)
BitsNat(bits) == IF bits = <<>> THEN 0 ELSE 2 * BitsNat(Front(bits)) + Last(bits)

\* binary digits without leading zeros
StripLeading(bits) ==
    LET ones == {i \in 1 .. Len(bits) : bits[i] = 1}
        n == CHOOSE i \in ones : \A j \in ones : i <= j
    IN  IF ones = {} THEN <<>> ELSE SubSeq(bits, n, Len(bits))

Reverse(seq) == [i \in 1 .. Len(seq) |-> seq[Len(seq) + 1 - i]]

\* digits * M + carry, exactly (carry < M <= 10^9), on digits written least
\* significant first: the low Len(digits) digits of the result and the carry
\* out of them, the digit sequence halved at each level
RECURSIVE MulCarry(_, _, _)
MulCarry(digits, M, carry) ==
    IF digits = <<>> THEN [low |-> <<>>, carry |-> carry]
    ELSE IF Len(digits) = 1
        THEN LET t == digits[1] * M + carry
             IN  [low |-> <<t % 2>>, carry |-> t \div 2]
    ELSE LET h == Len(digits) \div 2
             lo == MulCarry(SubSeq(digits, 1, h), M, carry)
             hi == MulCarry(SubSeq(digits, h + 1, Len(digits)), M, lo.carry)
         IN  [low |-> lo.low \o hi.low, carry |-> hi.carry]

\* bits * M, exactly
MulSmall(bits, M) ==
    LET prod == MulCarry(Reverse(bits), M, 0)
    IN  StripLeading(NatBits(prod.carry) \o Reverse(prod.low))

\* bits * 10^k, exactly
RECURSIVE MulPow10(_, _)
MulPow10(bits, k) ==
    IF k <= 0 THEN bits
    ELSE IF k <= 9 THEN MulSmall(bits, Pow10(k))
    ELSE MulSmall(MulPow10(bits, k - 9), Pow10(9))

\* long division of (r * 2^Len(bits) + bits) by D, r < D <= 10^9: one
\* quotient digit per digit of bits, and the remainder
RECURSIVE DivRem(_, _, _)
DivRem(bits, D, r) ==
    IF bits = <<>> THEN [q |-> <<>>, r |-> r]
    ELSE IF Len(bits) = 1
        THEN LET t == 2 * r + bits[1]
             IN  IF t >= D THEN [q |-> <<1>>, r |-> t - D] ELSE [q |-> <<0>>, r |-> t]
    ELSE LET h == Len(bits) \div 2
             hi == DivRem(SubSeq(bits, 1, h), D, r)
             lo == DivRem(SubSeq(bits, h + 1, Len(bits)), D, hi.r)
         IN  [q |-> hi.q \o lo.q, r |-> lo.r]

\* bits \div D and bits % D
DivSmall(bits, D) ==
    LET d == DivRem(bits, D, 0) IN [q |-> StripLeading(d.q), r |-> d.r]

\* bits + 1
Inc(bits) ==
    LET zeros == {i \in 1 .. Len(bits) : bits[i] = 0}
        z == CHOOSE i \in zeros : \A j \in zeros : j <= i
    IN  IF zeros = {} THEN <<1>> \o [i \in 1 .. Len(bits) |-> 0]
        ELSE [i \in 1 .. Len(bits) |-> IF i < z THEN bits[i] ELSE IF i = z THEN 1 ELSE 0]

\* the representation of bits * 2^exp: trailing zero digits go to the exponent
Canon(bits, exp) ==
    LET ones == {i \in 1 .. Len(bits) : bits[i] = 1}
        n == CHOOSE i \in ones : \A j \in ones : j <= i
    IN  IF ones = {} THEN [bits |-> <<>>, exp |-> 0]
        ELSE [bits |-> SubSeq(bits, 1, n), exp |-> exp + Len(bits) - n]

\* the double nearest to bits * 2^exp (+ a positive fraction below one unit
\* of the last digit when sticky), ties to even
Round53(bits, exp, sticky) ==
    IF Len(bits) <= SignificandBits THEN Canon(bits, exp)
    ELSE LET keep == SubSeq(bits, 1, SignificandBits)
             half == bits[SignificandBits + 1] = 1
             more == sticky \/ \E i \in SignificandBits + 2 .. Len(bits) : bits[i] = 1
             up == half /\ (more \/ Last(keep) = 1)
         IN  Canon(IF up THEN Inc(keep) ELSE keep, exp + Len(bits) - SignificandBits)

\* binary digits of the fraction r / D kept beyond the point: enough for a
\* full significand after the leading zeros of any r / D >= 10^-9
FractionDigits == SignificandBits + 32

\* the double nearest to (acc + r / D) * 2^exp, r < D
Expand(r, D, acc, exp) ==
    LET frac == DivRem([i \in 1 .. FractionDigits |-> 0], D, r)
    IN  Round53(StripLeading(acc \o frac.q), exp - FractionDigits, frac.r # 0)

\* the double a non-negative decimal literal x denotes
ToDouble(x) ==
    IF x.e >= 0 THEN Round53(MulPow10(NatBits(x.m), x.e), 0, FALSE)
    ELSE LET D == Pow10(-x.e)
         IN  Expand(x.m % D, D, NatBits(x.m \div D), 0)

\* x * Math.pow(10, k): powers of ten up to 10^22 are doubles
DoubleMulPow10(x, k) == Round53(MulPow10(x.bits, k), x.exp, FALSE)

\* x / Math.pow(10, k) for k <= 9
DoubleDivPow10(x, k) ==
    LET D == Pow10(k)
        whole == DivSmall(x.bits, D)
        quot == Expand(whole.r, D, whole.q, 0)
    IN  Canon(quot.bits, quot.exp + x.exp)

\* Math.floor(x), as binary digits
DoubleFloor(x) ==
    IF x.exp >= 0 THEN x.bits \o [i \in 1 .. x.exp |-> 0]
    ELSE IF -x.exp >= Len(x.bits) THEN <<>>
    ELSE SubSeq(x.bits, 1, Len(x.bits) + x.exp)

\* the whole number with these binary digits, as a decimal
RECURSIVE IntegerOf(_, _)
IntegerOf(bits, e) ==
    IF Len(bits) <= 30 THEN Norm(BitsNat(bits), e)
    ELSE IntegerOf(DivSmall(bits, 10).q, e + 1)

convertToLamportsIEEE(amount, decimals) ==
    NumberToString(IntegerOf(DoubleFloor(DoubleMulPow10(amount, decimals)), 0))

convertFromLamportsIEEE(lamports, decimals) ==
    DoubleDivPow10(ToDouble(ParseInt(lamports)), decimals)

(***************************************************************************)
(* The two conversions as a state machine: a caller writes an amount,      *)
(* scales it and reads the scaled string back at the same decimals.        *)
(***************************************************************************)
HugeAmounts == {Norm(1, 19)}
Literals == {Norm(n, -2) : n \in 0 .. MaxCents} \cup HugeAmounts
Scales == 0 .. MaxScale

ConvInit ==
    /\ literal \in Literals
    /\ scale \in Scales
    /\ scaled = Undefined
    /\ restored = Undefined
    /\ CalcIdle
    /\ CallsIdle
    /\ ServerIdle
    /\ AdvisorIdle
    /\ PoolIdle

ConvertToLamportsCall ==
    /\ literal # Undefined
    /\ scaled = Undefined
    /\ scaled' = convertToLamportsIEEE(ToDouble(literal), scale)
    /\ UNCHANGED <<literal, scale, restored, notConvVars>>

ConvertFromLamportsCall ==
    /\ scaled # Undefined
    /\ restored = Undefined
    /\ restored' = convertFromLamportsIEEE(scaled, scale)
    /\ UNCHANGED <<literal, scale, scaled, notConvVars>>

ConvNext == ConvertToLamportsCall \/ ConvertFromLamportsCall

ConvSpec == ConvInit /\ [][ConvNext]_vars

(***************************************************************************)
(* Concurrent calls.  The server holds one OrderCalculator and every       *)
(* handler calls calculateOrders on it.  Here NumCalls calls are in        *)
(* progress on one instance and advance in any order, one statement of     *)
(* calculateOrders at a time: each call has a frame with its request, its  *)
(* position and its locals; the instance fields are shared.                *)
(***************************************************************************)

\* the destructuring defaults `inputDecimals = this.defaultInputDecimals`,
\* `outputDecimals = this.defaultOutputDecimals`, read from the instance
WithInstanceDefaults(self, p) ==
    [p EXCEPT
        !.inputDecimals =
            IF @ = Undefined THEN Norm(self.defaultInputDecimals, 0) ELSE @,
        !.outputDecimals =
            IF @ = Undefined THEN Norm(self.defaultOutputDecimals, 0) ELSE @]

\* an instance that keeps the decimals of the last request as its defaults
InstanceAfter_Remembering(self, p) ==
    [defaultInputDecimals |->
        IF p.inputDecimals = Undefined THEN self.defaultInputDecimals
        ELSE ToInt(p.inputDecimals),
     defaultOutputDecimals |->
        IF p.outputDecimals = Undefined THEN self.defaultOutputDecimals
        ELSE ToInt(p.outputDecimals)]

\* the instance after a statement of calculateOrders has run for request p:
\* no method assigns a field
InstanceAfter(self, p) == self

NewFrame(p) ==
    [request |-> p,
     pc |-> "validate",
     buyOrder |-> Undefined,
     takeProfitOrder |-> Undefined,
     stopLossOrder |-> Undefined,
     result |-> Undefined]

\* requests of the concurrent calls: rejected and accepted ones, with and
\* without exit legs, with inputDecimals supplied and left to the default
CallRequests ==
    {p \in Requests :
        /\ p.currentPrice = Tick(2)
        /\ p.amountToSell = Tick(2)
        /\ p.buyPrice \in {Tick(0), Tick(2)}
        /\ p.takeProfitPrice \in {Undefined, Tick(3)}
        /\ p.stopLossPrice \in {Undefined, Tick(1)}
        /\ p.inputDecimals \in {Undefined, Norm(0, 0)}
        /\ p.outputDecimals = Undefined}

CallsInit ==
    /\ calculator = NewCalculator
    /\ frames \in [1 .. NumCalls -> {NewFrame(p) : p \in CallRequests}]
    /\ CalcIdle
    /\ ConvIdle
    /\ ServerIdle
    /\ AdvisorIdle
    /\ PoolIdle

\* this.validateInputs(params): a throw ends the call
ValidateStep(i) ==
    /\ frames[i].pc = "validate"
    /\ LET validation == validateInputs(frames[i].request)
       IN  frames' = [frames EXCEPT ![i] =
               IF validation # Undefined
                   THEN [@ EXCEPT !.result = validation, !.pc = "returned"]
                   ELSE [@ EXCEPT !.pc = "buy"]]
    /\ calculator' = InstanceAfter(calculator, frames[i].request)
    /\ UNCHANGED notCallVars

\* const buyOrder = this.calculateBuyOrder(params)
BuyStep(i) ==
    /\ frames[i].pc = "buy"
    /\ LET p == frames[i].request
       IN  frames' = [frames EXCEPT ![i] =
               [@ EXCEPT !.buyOrder =
                             calculateBuyOrder(WithInstanceDefaults(calculator, p)),
                         !.pc = "takeProfit"]]
    /\ calculator' = InstanceAfter(calculator, frames[i].request)
    /\ UNCHANGED notCallVars

\* if (takeProfitPrice && takeProfitPrice > buyPrice) takeProfitOrder = ...
TakeProfitStep(i) ==
    /\ frames[i].pc = "takeProfit"
    /\ LET p == frames[i].request
           wanted == Truthy(p.takeProfitPrice) /\ NumLt(p.buyPrice, p.takeProfitPrice)
       IN  frames' = [frames EXCEPT ![i] =
               [@ EXCEPT !.takeProfitOrder =
                             IF wanted
                                 THEN calculateTakeProfitOrder(
                                          WithInstanceDefaults(calculator, p))
                                 ELSE Undefined,
                         !.pc = "stopLoss"]]
    /\ calculator' = InstanceAfter(calculator, frames[i].request)
    /\ UNCHANGED notCallVars

\* if (stopLossPrice && stopLossPrice < buyPrice) stopLossOrder = ...
StopLossStep(i) ==
    /\ frames[i].pc = "stopLoss"
    /\ LET p == frames[i].request
           wanted == Truthy(p.stopLossPrice) /\ NumLt(p.stopLossPrice, p.buyPrice)
       IN  frames' = [frames EXCEPT ![i] =
               [@ EXCEPT !.stopLossOrder =
                             IF wanted
                                 THEN calculateStopLossOrder(
                                          WithInstanceDefaults(calculator, p))
                                 ELSE Undefined,
                         !.pc = "summary"]]
    /\ calculator' = InstanceAfter(calculator, frames[i].request)
    /\ UNCHANGED notCallVars

\* const summary = this.calculateSummary(...); return {...}
SummaryStep(i) ==
    /\ frames[i].pc = "summary"
    /\ LET f == frames[i]
       IN  frames' = [frames EXCEPT ![i] =
               [@ EXCEPT !.result =
                             [threw |-> FALSE,
                              buyOrder |-> f.buyOrder,
                              takeProfitOrder |-> f.takeProfitOrder,
                              stopLossOrder |-> f.stopLossOrder,
                              summary |-> calculateSummary(f.buyOrder, f.takeProfitOrder,
                                                           f.stopLossOrder)],
                         !.pc = "returned"]]
    /\ calculator' = InstanceAfter(calculator, frames[i].request)
    /\ UNCHANGED notCallVars

CallsNext ==
    \/ \E i \in DOMAIN frames : ValidateStep(i)
    \/ \E i \in DOMAIN frames : BuyStep(i)
    \/ \E i \in DOMAIN frames : TakeProfitStep(i)
    \/ \E i \in DOMAIN frames : StopLossStep(i)
    \/ \E i \in DOMAIN frames : SummaryStep(i)

CallsSpec == CallsInit /\ [][CallsNext]_vars

(***************************************************************************)
(* SocketServer: the createOrder event.  A handler runs from one await to  *)
(* the next in one step.  createOrder validates and computes the legs,     *)
(* then for each leg in turn sends the order to the Jupiter gateway,       *)
(* awaits its answer, inserts the row and awaits the insert; the gateway   *)
(* call and the insert may each throw, which ends the handler with a       *)
(* failure response.  A gateway answer names the order account it created: *)
(* the model numbers the accounts by the position of the call in           *)
(* gatewayLog.  Request amounts are multiples of 0.5 as for the            *)
(* calculator.                                                             *)
(***************************************************************************)

\* const calculationParams: OrderCalculationParams = {...}
CalculationParams(data) ==
    [currentPrice |-> data.currentPrice,
     buyPrice |-> data.buyPrice,
     takeProfitPrice |-> data.takeProfitPrice,
     stopLossPrice |-> data.stopLossPrice,
     amountToSell |-> data.amountToSell,
     inputDecimals |-> data.inputDecimals,
     outputDecimals |-> data.outputDecimals]

\* x || dflt: the default replaces every falsy x, undefined and 0 alike
OrElse(x, dflt) == IF Truthy(x) THEN x ELSE Norm(dflt, 0)

\* SocketServer.convertFromLamports
serverConvertFromLamports(lamports, decimals) ==
    NumDivPow10(ParseInt(lamports), decimals)

\* a request builder that sends every leg in the direction of the buy leg
JupiterRequestOf_Unswapped(data, calculatedOrder, orderType) ==
    [inputMint |-> data.inputMint,
     outputMint |-> data.outputMint,
     maker |-> data.maker,
     payer |-> data.payer,
     params |-> [makingAmount |-> calculatedOrder.makingAmount,
                 takingAmount |-> calculatedOrder.takingAmount],
     computeUnitPrice |-> "auto"]

\* createJupiterOrder: the jupiterRequest of a leg
JupiterRequestOf(data, calculatedOrder, orderType) ==
    LET isBuyOrder == orderType = "BUY"
    IN  [inputMint |-> IF isBuyOrder THEN data.inputMint ELSE data.outputMint,
         outputMint |-> IF isBuyOrder THEN data.outputMint ELSE data.inputMint,
         maker |-> data.maker,
         payer |-> data.payer,
         params |-> [makingAmount |-> calculatedOrder.makingAmount,
                     takingAmount |-> calculatedOrder.takingAmount],
         computeUnitPrice |-> "auto"]

\* createJupiterOrder: the decimals the stored amounts are divided by
StorageDecimals(data, orderType) ==
    LET isBuyOrder == orderType = "BUY"
    IN  [inputDecimals |-> IF isBuyOrder THEN OrElse(data.inputDecimals, 9)
                           ELSE OrElse(data.outputDecimals, 6),
         outputDecimals |-> IF isBuyOrder THEN OrElse(data.outputDecimals, 6)
                            ELSE OrElse(data.inputDecimals, 9)]

\* createJupiterOrder: the row of INSERT INTO orders ... RETURNING id
OrderRow(id, data, calculatedOrder, orderType, jupiterResponse) ==
    LET request == JupiterRequestOf(data, calculatedOrder, orderType)
        decimals == StorageDecimals(data, orderType)
    IN  [id |-> id,
         wallet_address |-> data.maker,
         order_account |-> jupiterResponse.order,
         input_mint |-> request.inputMint,
         output_mint |-> request.outputMint,
         input_amount |->
             serverConvertFromLamports(calculatedOrder.makingAmount,
                                       decimals.inputDecimals),
         output_amount |->
             serverConvertFromLamports(calculatedOrder.takingAmount,
                                       decimals.outputDecimals),
         entry_price |-> data.currentPrice,
         take_profit_price |-> data.takeProfitPrice,
         stop_loss_price |-> data.stopLossPrice,
         order_type |-> orderType,
         status |-> "PENDING",
         jupiter_request_id |-> jupiterResponse.requestId,
         transaction_signature |-> jupiterResponse.transaction,
         metadata |-> [calculatedOrder |-> calculatedOrder,
                       orderType |-> orderType,
                       targetPrice |-> calculatedOrder.targetPrice,
                       inputDecimals |-> decimals.inputDecimals,
                       outputDecimals |-> decimals.outputDecimals]]

\* the computed leg of a kind (Undefined when the leg was not computed)
LegOf(calculations, orderType) ==
    CASE orderType = "BUY" -> calculations.buyOrder
      [] orderType = "TAKE_PROFIT" -> calculations.takeProfitOrder
      [] orderType = "STOP_LOSS" -> calculations.stopLossOrder

\* a handler that never submits the stop-loss leg
NextLeg_NoStopLoss(calculations, orderType) ==
    IF orderType = "BUY" /\ calculations.takeProfitOrder # Undefined
        THEN "TAKE_PROFIT"
    ELSE "NONE"

\* a handler that submits the stop-loss leg before the take-profit leg
NextLeg_StopLossFirst(calculations, orderType) ==
    IF orderType = "BUY" /\ calculations.stopLossOrder # Undefined
        THEN "STOP_LOSS"
    ELSE IF orderType \in {"BUY", "STOP_LOSS"} /\ calculations.takeProfitOrder # Undefined
        THEN "TAKE_PROFIT"
    ELSE "NONE"

\* handleCreateOrder: the leg submitted after the leg orderType, "NONE"
\* after the last (if (calculations.takeProfitOrder) ..., if
\* (calculations.stopLossOrder) ...)
NextLeg(calculations, orderType) ==
    IF orderType = "BUY" /\ calculations.takeProfitOrder # Undefined
        THEN "TAKE_PROFIT"
    ELSE IF orderType \in {"BUY", "TAKE_PROFIT"} /\ calculations.stopLossOrder # Undefined
        THEN "STOP_LOSS"
    ELSE "NONE"

\* handleCreateOrder: the value returned when every leg is created
SuccessResponse(calculations, createdOrders) ==
    [success |-> TRUE,
     data |-> [orders |-> createdOrders,
               calculations |-> [buyOrder |-> calculations.buyOrder,
                                 takeProfitOrder |-> calculations.takeProfitOrder,
                                 stopLossOrder |-> calculations.stopLossOrder,
                                 summary |-> calculations.summary],
               note |-> "Jupiter trigger system will automatically execute these orders when conditions are met"],
     orderId |-> createdOrders[1].orderId]

\* a catch clause that hides the error behind a fixed text
ErrorResponse_Generic(message) ==
    [success |-> FALSE, error |-> "Unknown error occurred"]

\* the catch clause of the createOrder listener (error is always an Error)
ErrorResponse(message) ==
    [success |-> FALSE, error |-> message]

OrderCreated(i, payload) ==
    [to |-> i, event |-> "orderCreated", payload |-> payload]

\* the entry of gatewayLog for a leg of handler i
GatewayCall(i, data, calculatedOrder, orderType) ==
    [by |-> i,
     api |-> "createOrder",
     orderType |-> orderType,
     request |-> JupiterRequestOf(data, calculatedOrder, orderType)]

\* JupiterService.createOrder answering the call at position k
JupiterResponse(k) == [order |-> k, requestId |-> k, transaction |-> k]

GatewayError == "Jupiter API error"
DatabaseError == "database error"

\* createOrder payloads: one maker and payer, one pair of tokens; rejected
\* (buyPrice = 0) and accepted requests with every combination of exit
\* legs, decimals omitted or given as 0
CreateOrderRequests ==
    {[inputMint |-> "SOL", outputMint |-> "USDC",
      maker |-> "maker", payer |-> "payer",
      currentPrice |-> p.currentPrice,
      buyPrice |-> p.buyPrice,
      takeProfitPrice |-> p.takeProfitPrice,
      stopLossPrice |-> p.stopLossPrice,
      amountToSell |-> p.amountToSell,
      inputDecimals |-> p.inputDecimals,
      outputDecimals |-> p.outputDecimals] :
        p \in {q \in Requests :
                  /\ q.currentPrice = Tick(2)
                  /\ q.amountToSell = Tick(2)
                  /\ q.buyPrice \in {Tick(0), Tick(2)}
                  /\ q.takeProfitPrice \in {Undefined, Tick(3)}
                  /\ q.stopLossPrice \in {Undefined, Tick(1)}
                  /\ q.inputDecimals \in {Undefined, Norm(0, 0)}
                  /\ q.outputDecimals \in {Undefined, Norm(0, 0)}}}

Init ==
    /\ ServerIdle
    /\ AdvisorIdle
    /\ PoolIdle
    /\ CalcIdle
    /\ ConvIdle
    /\ CallsIdle

\* socket.on('createOrder', ...) up to the first await: validation and
\* calculation, then the buy leg is sent to the gateway; a validation error
\* is caught and answered at once
ReceiveCreateOrder(data) ==
    /\ LET i == Len(handlers) + 1
           calculations == calculateOrders(CalculationParams(data))
           handler == [event |-> "createOrder",
                       data |-> data,
                       calculations |-> calculations,
                       createdOrders |-> <<>>,
                       jupiterResponse |-> Undefined]
       IN  IF calculations.threw
               THEN /\ handlers' = Append(handlers,
                           handler @@ [pc |-> "done", leg |-> "NONE", call |-> 0])
                    /\ emitted' = Append(emitted,
                           OrderCreated(i, ErrorResponse(calculations.message)))
                    /\ UNCHANGED <<gatewayLog, ordersTable>>
               ELSE /\ handlers' = Append(handlers,
                           handler @@ [pc |-> "awaitGateway", leg |-> "BUY",
                                       call |-> Len(gatewayLog) + 1])
                    /\ gatewayLog' = Append(gatewayLog,
                           GatewayCall(i, data, calculations.buyOrder, "BUY"))
                    /\ UNCHANGED <<emitted, ordersTable>>
    /\ UNCHANGED notServerVars

CreateOrderEvent ==
    /\ Len(handlers) < MaxEvents
    /\ \E data \in CreateOrderRequests : ReceiveCreateOrder(data)

\* await this.jupiterService.createOrder(jupiterRequest) returns: the
\* amounts are converted and the INSERT is sent
JupiterCreateOrderReturns(i) ==
    /\ handlers[i].pc = "awaitGateway"
    /\ handlers' = [handlers EXCEPT ![i] =
           [@ EXCEPT !.pc = "awaitInsert",
                     !.jupiterResponse = JupiterResponse(handlers[i].call)]]
    /\ UNCHANGED <<gatewayLog, ordersTable, emitted, notServerVars>>

\* await this.jupiterService.createOrder(jupiterRequest) throws
JupiterCreateOrderThrows(i) ==
    /\ handlers[i].pc = "awaitGateway"
    /\ handlers' = [handlers EXCEPT ![i] = [@ EXCEPT !.pc = "done"]]
    /\ emitted' = Append(emitted, OrderCreated(i, ErrorResponse(GatewayError)))
    /\ UNCHANGED <<gatewayLog, ordersTable, notServerVars>>

\* await this.dbClient.query(INSERT ...) returns the new id: the leg is
\* pushed to createdOrders, then the next leg is sent to the gateway or,
\* after the last leg, the success response is emitted
InsertReturns(i) ==
    /\ handlers[i].pc = "awaitInsert"
    /\ LET h == handlers[i]
           id == Len(ordersTable) + 1
           calculatedOrder == LegOf(h.calculations, h.leg)
           createdOrders ==
               Append(h.createdOrders,
                      [orderId |-> id,
                       jupiterResponse |-> h.jupiterResponse,
                       calculatedOrder |-> calculatedOrder,
                       orderType |-> h.leg])
           next == NextLeg(h.calculations, h.leg)
       IN  /\ ordersTable' = Append(ordersTable,
                  OrderRow(id, h.data, calculatedOrder, h.leg, h.jupiterResponse))
           /\ IF next = "NONE"
                  THEN /\ handlers' = [handlers EXCEPT ![i] =
                              [@ EXCEPT !.pc = "done",
                                        !.leg = "NONE",
                                        !.createdOrders = createdOrders]]
                       /\ emitted' = Append(emitted,
                              OrderCreated(i, SuccessResponse(h.calculations,
                                                              createdOrders)))
                       /\ UNCHANGED gatewayLog
                  ELSE /\ handlers' = [handlers EXCEPT ![i] =
                              [@ EXCEPT !.pc = "awaitGateway",
                                        !.leg = next,
                                        !.call = Len(gatewayLog) + 1,
                                        !.createdOrders = createdOrders]]
                       /\ gatewayLog' = Append(gatewayLog,
                              GatewayCall(i, h.data, LegOf(h.calculations, next), next))
                       /\ UNCHANGED emitted
    /\ UNCHANGED notServerVars

\* await this.dbClient.query(INSERT ...) throws: no row is inserted
InsertThrows(i) ==
    /\ handlers[i].pc = "awaitInsert"
    /\ handlers' = [handlers EXCEPT ![i] = [@ EXCEPT !.pc = "done"]]
    /\ emitted' = Append(emitted, OrderCreated(i, ErrorResponse(DatabaseError)))
    /\ UNCHANGED <<gatewayLog, ordersTable, notServerVars>>

Next ==
    \/ CreateOrderEvent
    \/ \E i \in DOMAIN handlers : JupiterCreateOrderReturns(i)
    \/ \E i \in DOMAIN handlers : JupiterCreateOrderThrows(i)
    \/ \E i \in DOMAIN handlers : InsertReturns(i)
    \/ \E i \in DOMAIN handlers : InsertThrows(i)

Spec == Init /\ [][Next]_vars

(***************************************************************************)
(* SocketServer: the events on stored orders (getOrderStatus, cancelOrder, *)
(* getOrders, getOrderById, updateOrderStatus) next to createOrder.  The   *)
(* table starts with rows earlier createOrder events persisted.  A query   *)
(* takes effect and answers in one step, or throws without effect.  An     *)
(* order id is the position of its row; created_at (DEFAULT NOW()) grows   *)
(* with the position.  An optional field of a payload is present in the    *)
(* record or not.                                                          *)
(***************************************************************************)
\* if (data.f): the field is present and not the empty string
TruthyField(data, f) == f \in DOMAIN data /\ data[f] # ""

\* the createOrder payload an earlier event of a wallet carried
PersistedRequest(maker) ==
    [inputMint |-> "SOL", outputMint |-> "USDC",
     maker |-> maker, payer |-> maker,
     currentPrice |-> Tick(2),
     buyPrice |-> Tick(2),
     takeProfitPrice |-> Undefined,
     stopLossPrice |-> Undefined,
     amountToSell |-> Tick(2),
     inputDecimals |-> Undefined,
     outputDecimals |-> Undefined]

\* the row createJupiterOrder inserted for its buy leg (order accounts of
\* earlier events are numbered below 0), with the status it has by now
PersistedRow(id, maker, status) ==
    LET data == PersistedRequest(maker)
        calculations == calculateOrders(CalculationParams(data))
    IN  [OrderRow(id, data, calculations.buyOrder, "BUY", JupiterResponse(-id))
            EXCEPT !.status = status]

\* tables the server can find at start: empty; one pending order; a
\* wallet's pending order and an order updateOrderStatus marked EXECUTED;
\* pending orders of two wallets
PersistedTables ==
    {<<>>,
     <<PersistedRow(1, "maker", "PENDING")>>,
     <<PersistedRow(1, "maker", "PENDING"), PersistedRow(2, "maker", "EXECUTED")>>,
     <<PersistedRow(1, "maker", "PENDING"), PersistedRow(2, "trader", "PENDING")>>}

\* SELECT ... FROM orders WHERE id = $1: result.rows
SelectById(table, orderId) == SelectSeq(table, LAMBDA row : row.id = orderId)

\* ORDER BY created_at DESC
OrderByCreatedAtDesc(rows) == Reverse(rows)

\* LIMIT n
Limit(rows, n) == SubSeq(rows, 1, Min(n, Len(rows)))

\* DatabaseClient.getOrders(walletAddress, status); data carries the
\* optional status
getOrders(table, walletAddress, data) ==
    OrderByCreatedAtDesc(SelectSeq(table, LAMBDA row :
        /\ row.wallet_address = walletAddress
        /\ TruthyField(data, "status") => row.status = data.status))

\* DatabaseClient.getAllOrders(status, limit = 100); data carries the
\* optional status and limit
getAllOrders(table, data) ==
    Limit(OrderByCreatedAtDesc(SelectSeq(table, LAMBDA row :
              TruthyField(data, "status") => row.status = data.status)),
          IF "limit" \in DOMAIN data THEN data.limit ELSE 100)

\* the getOrders listener: which of the two queries answers
OrdersFor(table, data) ==
    IF TruthyField(data, "walletAddress")
        THEN getOrders(table, data.walletAddress, data)
    ELSE getAllOrders(table, data)

\* UPDATE orders SET status = 'CANCELLED', metadata = jsonb_set(metadata,
\* '{cancellation}', ...) WHERE id = $2
CancelledTable(table, orderId, cancelResponse) ==
    [k \in DOMAIN table |->
        IF table[k].id = orderId
            THEN [table[k] EXCEPT
                     !.status = "CANCELLED",
                     !.metadata = [cancellation |->
                                      [jupiterResponse |-> cancelResponse]] @@ @]
        ELSE table[k]]

\* DatabaseClient.updateOrderStatus: UPDATE orders SET status = $1
\* [, transaction_signature = $2] WHERE id = $n
StatusUpdatedTable(table, data) ==
    [k \in DOMAIN table |->
        IF table[k].id = data.orderId
            THEN [table[k] EXCEPT
                     !.status = data.status,
                     !.transaction_signature =
                         IF "transactionSignature" \in DOMAIN data
                             THEN data.transactionSignature ELSE @]
        ELSE table[k]]

\* JupiterService.cancelOrder answering the call at position k
CancelResponse(k) == [transactions |-> <<k>>, requestId |-> k]

\* the entry of gatewayLog for the cancel call of handler i
CancelCall(i, orderData) ==
    [by |-> i,
     api |-> "cancelOrder",
     request |-> [orderAccount |-> orderData.order_account,
                  maker |-> orderData.wallet_address,
                  payer |-> orderData.wallet_address]]

Emit(i, event, payload) == [to |-> i, event |-> event, payload |-> payload]

\* the catch clause of the cancelOrder listener
CancelFailure(orderId, message) ==
    [success |-> FALSE, orderId |-> orderId, error |-> message]

\* events on stored orders a client sends
CancelPayloads == {1, 2}
StatusPayloads == {1, 2}
ByIdPayloads == {[orderId |-> 1], [orderId |-> 2]}
GetOrdersPayloads ==
    {<<>>,
     [walletAddress |-> "maker"],
     [status |-> "PENDING", limit |-> 1],
     [walletAddress |-> "maker", limit |-> 1],
     [walletAddress |-> "trader", status |-> "PENDING", limit |-> 1]}
UpdatePayloads ==
    {[orderId |-> 1, status |-> "EXECUTED"],
     [orderId |-> 1, status |-> "PENDING"],
     [orderId |-> 2, status |-> "CANCELLED", transactionSignature |-> 9],
     [orderId |-> 1, status |-> "FILLED"]}

\* createOrder payloads sent next to them: a rejected and an accepted one
\* (buy leg only)
StoreCreateRequests ==
    {data \in CreateOrderRequests :
        /\ data.takeProfitPrice = Undefined
        /\ data.stopLossPrice = Undefined
        /\ data.inputDecimals = Undefined
        /\ data.outputDecimals = Undefined}

\* socket.on('getOrderStatus', ...) up to its await
GetOrderStatusEvent ==
    /\ Len(handlers) < MaxStoreEvents
    /\ \E orderId \in StatusPayloads :
           handlers' = Append(handlers,
               [event |-> "getOrderStatus", data |-> orderId, pc |-> "awaitStatus"])
    /\ UNCHANGED <<gatewayLog, ordersTable, emitted, notServerVars>>

\* SELECT * FROM orders WHERE id = $1 returns: data is rows[0] || null
StatusQueryReturns(i) ==
    /\ handlers[i].pc = "awaitStatus"
    /\ LET rows == SelectById(ordersTable, handlers[i].data)
       IN  emitted' = Append(emitted, Emit(i, "orderStatus",
               [success |-> TRUE,
                data |-> IF rows = <<>> THEN Undefined ELSE rows[1]]))
    /\ handlers' = [handlers EXCEPT ![i] = [@ EXCEPT !.pc = "done"]]
    /\ UNCHANGED <<gatewayLog, ordersTable, notServerVars>>

StatusQueryThrows(i) ==
    /\ handlers[i].pc = "awaitStatus"
    /\ emitted' = Append(emitted, Emit(i, "orderStatus", ErrorResponse(DatabaseError)))
    /\ handlers' = [handlers EXCEPT ![i] = [@ EXCEPT !.pc = "done"]]
    /\ UNCHANGED <<gatewayLog, ordersTable, notServerVars>>

\* socket.on('cancelOrder', ...) up to its first await
CancelOrderEvent ==
    /\ Len(handlers) < MaxStoreEvents
    /\ \E orderId \in CancelPayloads :
           handlers' = Append(handlers,
               [event |-> "cancelOrder", data |-> orderId, pc |-> "awaitLookup",
                orderData |-> Undefined, cancelResponse |-> Undefined])
    /\ UNCHANGED <<gatewayLog, ordersTable, emitted, notServerVars>>

\* the lookup returns: an unknown id is answered 'Order not found'; else
\* the cancel request for the row's order account goes to the gateway
LookupReturns(i) ==
    /\ handlers[i].pc = "awaitLookup"
    /\ LET rows == SelectById(ordersTable, handlers[i].data)
       IN  IF Len(rows) = 0
               THEN /\ emitted' = Append(emitted, Emit(i, "orderCancelled",
                           CancelFailure(handlers[i].data, "Order not found")))
                    /\ handlers' = [handlers EXCEPT ![i] = [@ EXCEPT !.pc = "done"]]
                    /\ UNCHANGED gatewayLog
               ELSE /\ gatewayLog' = Append(gatewayLog, CancelCall(i, rows[1]))
                    /\ handlers' = [handlers EXCEPT ![i] =
                           [@ EXCEPT !.pc = "awaitCancel", !.orderData = rows[1]]]
                    /\ UNCHANGED emitted
    /\ UNCHANGED <<ordersTable, notServerVars>>

LookupThrows(i) ==
    /\ handlers[i].pc = "awaitLookup"
    /\ emitted' = Append(emitted, Emit(i, "orderCancelled",
           CancelFailure(handlers[i].data, DatabaseError)))
    /\ handlers' = [handlers EXCEPT ![i] = [@ EXCEPT !.pc = "done"]]
    /\ UNCHANGED <<gatewayLog, ordersTable, notServerVars>>

\* await this.jupiterService.cancelOrder(...) returns: the UPDATE is sent
JupiterCancelReturns(i) ==
    /\ handlers[i].pc = "awaitCancel"
    /\ \E k \in DOMAIN gatewayLog :
           /\ gatewayLog[k].by = i
           /\ handlers' = [handlers EXCEPT ![i] =
                  [@ EXCEPT !.pc = "awaitCancelUpdate",
                            !.cancelResponse = CancelResponse(k)]]
    /\ UNCHANGED <<gatewayLog, ordersTable, emitted, notServerVars>>

\* a catch clause that records the cancellation although the gateway refused
JupiterCancelThrows_Cancels(i) ==
    /\ handlers[i].pc = "awaitCancel"
    /\ ordersTable' = CancelledTable(ordersTable, handlers[i].data, Undefined)
    /\ emitted' = Append(emitted, Emit(i, "orderCancelled",
           CancelFailure(handlers[i].data, GatewayError)))
    /\ handlers' = [handlers EXCEPT ![i] = [@ EXCEPT !.pc = "done"]]
    /\ UNCHANGED <<gatewayLog, notServerVars>>

\* await this.jupiterService.cancelOrder(...) throws
JupiterCancelThrows(i) ==
    /\ handlers[i].pc = "awaitCancel"
    /\ emitted' = Append(emitted, Emit(i, "orderCancelled",
           CancelFailure(handlers[i].data, GatewayError)))
    /\ handlers' = [handlers EXCEPT ![i] = [@ EXCEPT !.pc = "done"]]
    /\ UNCHANGED <<gatewayLog, ordersTable, notServerVars>>

\* the UPDATE returns: the row is CANCELLED and the success is emitted
CancelUpdateReturns(i) ==
    /\ handlers[i].pc = "awaitCancelUpdate"
    /\ ordersTable' = CancelledTable(ordersTable, handlers[i].data,
                                     handlers[i].cancelResponse)
    /\ emitted' = Append(emitted, Emit(i, "orderCancelled",
           [success |-> TRUE, orderId |-> handlers[i].data,
            data |-> [cancelledAt |-> "now"]]))
    /\ handlers' = [handlers EXCEPT ![i] = [@ EXCEPT !.pc = "done"]]
    /\ UNCHANGED <<gatewayLog, notServerVars>>

CancelUpdateThrows(i) ==
    /\ handlers[i].pc = "awaitCancelUpdate"
    /\ emitted' = Append(emitted, Emit(i, "orderCancelled",
           CancelFailure(handlers[i].data, DatabaseError)))
    /\ handlers' = [handlers EXCEPT ![i] = [@ EXCEPT !.pc = "done"]]
    /\ UNCHANGED <<gatewayLog, ordersTable, notServerVars>>

\* socket.on('getOrders', ...) up to its await
GetOrdersEvent ==
    /\ Len(handlers) < MaxStoreEvents
    /\ \E data \in GetOrdersPayloads :
           handlers' = Append(handlers,
               [event |-> "getOrders", data |-> data, pc |-> "awaitOrders"])
    /\ UNCHANGED <<gatewayLog, ordersTable, emitted, notServerVars>>

\* dbClient.getOrders / getAllOrders returns
OrdersQueryReturns(i) ==
    /\ handlers[i].pc = "awaitOrders"
    /\ LET orders == OrdersFor(ordersTable, handlers[i].data)
       IN  emitted' = Append(emitted, Emit(i, "ordersList",
               [success |-> TRUE,
                data |-> [orders |-> orders,
                          total |-> Len(orders),
                          filters |-> handlers[i].data]]))
    /\ handlers' = [handlers EXCEPT ![i] = [@ EXCEPT !.pc = "done"]]
    /\ UNCHANGED <<gatewayLog, ordersTable, notServerVars>>

OrdersQueryThrows(i) ==
    /\ handlers[i].pc = "awaitOrders"
    /\ emitted' = Append(emitted, Emit(i, "ordersList", ErrorResponse(DatabaseError)))
    /\ handlers' = [handlers EXCEPT ![i] = [@ EXCEPT !.pc = "done"]]
    /\ UNCHANGED <<gatewayLog, ordersTable, notServerVars>>

\* socket.on('getOrderById', ...) up to its await
GetOrderByIdEvent ==
    /\ Len(handlers) < MaxStoreEvents
    /\ \E data \in ByIdPayloads :
           handlers' = Append(handlers,
               [event |-> "getOrderById", data |-> data, pc |-> "awaitById"])
    /\ UNCHANGED <<gatewayLog, ordersTable, emitted, notServerVars>>

\* dbClient.getOrderById returns rows[0] || null
ByIdQueryReturns(i) ==
    /\ handlers[i].pc = "awaitById"
    /\ LET rows == SelectById(ordersTable, handlers[i].data.orderId)
       IN  emitted' = Append(emitted, Emit(i, "orderDetails",
               IF rows = <<>>
                   THEN ErrorResponse("Order not found")
               ELSE [success |-> TRUE, data |-> rows[1]]))
    /\ handlers' = [handlers EXCEPT ![i] = [@ EXCEPT !.pc = "done"]]
    /\ UNCHANGED <<gatewayLog, ordersTable, notServerVars>>

\* a catch clause that only logs the error
ByIdQueryThrows_Silent(i) ==
    /\ handlers[i].pc = "awaitById"
    /\ handlers' = [handlers EXCEPT ![i] = [@ EXCEPT !.pc = "done"]]
    /\ UNCHANGED <<gatewayLog, ordersTable, emitted, notServerVars>>

ByIdQueryThrows(i) ==
    /\ handlers[i].pc = "awaitById"
    /\ emitted' = Append(emitted, Emit(i, "orderDetails", ErrorResponse(DatabaseError)))
    /\ handlers' = [handlers EXCEPT ![i] = [@ EXCEPT !.pc = "done"]]
    /\ UNCHANGED <<gatewayLog, ordersTable, notServerVars>>

\* socket.on('updateOrderStatus', ...) up to its await
UpdateOrderStatusEvent ==
    /\ Len(handlers) < MaxStoreEvents
    /\ \E data \in UpdatePayloads :
           handlers' = Append(handlers,
               [event |-> "updateOrderStatus", data |-> data, pc |-> "awaitStatusUpdate"])
    /\ UNCHANGED <<gatewayLog, ordersTable, emitted, notServerVars>>

\* dbClient.updateOrderStatus returns (also when no row has the id)
StatusUpdateReturns(i) ==
    /\ handlers[i].pc = "awaitStatusUpdate"
    /\ ordersTable' = StatusUpdatedTable(ordersTable, handlers[i].data)
    /\ emitted' = Append(emitted, Emit(i, "orderStatusUpdated",
           [success |-> TRUE,
            data |-> [orderId |-> handlers[i].data.orderId,
                      status |-> handlers[i].data.status,
                      updatedAt |-> "now"]]))
    /\ handlers' = [handlers EXCEPT ![i] = [@ EXCEPT !.pc = "done"]]
    /\ UNCHANGED <<gatewayLog, notServerVars>>

StatusUpdateThrows(i) ==
    /\ handlers[i].pc = "awaitStatusUpdate"
    /\ emitted' = Append(emitted, Emit(i, "orderStatusUpdated",
           ErrorResponse(DatabaseError)))
    /\ handlers' = [handlers EXCEPT ![i] = [@ EXCEPT !.pc = "done"]]
    /\ UNCHANGED <<gatewayLog, ordersTable, notServerVars>>

\* createOrder received next to the other events
StoreCreateOrderEvent ==
    /\ Len(handlers) < MaxStoreEvents
    /\ \E data \in StoreCreateRequests : ReceiveCreateOrder(data)

StoreInit ==
    /\ handlers = <<>>
    /\ gatewayLog = <<>>
    /\ ordersTable \in PersistedTables
    /\ emitted = <<>>
    /\ CalcIdle
    /\ ConvIdle
    /\ CallsIdle
    /\ AdvisorIdle
    /\ PoolIdle

StoreNext ==
    \/ StoreCreateOrderEvent
    \/ \E i \in DOMAIN handlers : JupiterCreateOrderReturns(i)
    \/ \E i \in DOMAIN handlers : JupiterCreateOrderThrows(i)
    \/ \E i \in DOMAIN handlers : InsertReturns(i)
    \/ \E i \in DOMAIN handlers : InsertThrows(i)
    \/ GetOrderStatusEvent
    \/ \E i \in DOMAIN handlers : StatusQueryReturns(i)
    \/ \E i \in DOMAIN handlers : StatusQueryThrows(i)
    \/ CancelOrderEvent
    \/ \E i \in DOMAIN handlers : LookupReturns(i)
    \/ \E i \in DOMAIN handlers : LookupThrows(i)
    \/ \E i \in DOMAIN handlers : JupiterCancelReturns(i)
    \/ \E i \in DOMAIN handlers : JupiterCancelThrows(i)
    \/ \E i \in DOMAIN handlers : CancelUpdateReturns(i)
    \/ \E i \in DOMAIN handlers : CancelUpdateThrows(i)
    \/ GetOrdersEvent
    \/ \E i \in DOMAIN handlers : OrdersQueryReturns(i)
    \/ \E i \in DOMAIN handlers : OrdersQueryThrows(i)
    \/ GetOrderByIdEvent
    \/ \E i \in DOMAIN handlers : ByIdQueryReturns(i)
    \/ \E i \in DOMAIN handlers : ByIdQueryThrows(i)
    \/ UpdateOrderStatusEvent
    \/ \E i \in DOMAIN handlers : StatusUpdateReturns(i)
    \/ \E i \in DOMAIN handlers : StatusUpdateThrows(i)

StoreSpec == StoreInit /\ [][StoreNext]_vars

Received(i) == i \in DOMAIN handlers

\* a handler at an await is resumed once the awaited call has returned or
\* thrown, and every collaborator call returns or throws
HandlerResumes(i) ==
    \/ JupiterCreateOrderReturns(i) \/ JupiterCreateOrderThrows(i)
    \/ InsertReturns(i) \/ InsertThrows(i)
    \/ StatusQueryReturns(i) \/ StatusQueryThrows(i)
    \/ LookupReturns(i) \/ LookupThrows(i)
    \/ JupiterCancelReturns(i) \/ JupiterCancelThrows(i)
    \/ CancelUpdateReturns(i) \/ CancelUpdateThrows(i)
    \/ OrdersQueryReturns(i) \/ OrdersQueryThrows(i)
    \/ ByIdQueryReturns(i) \/ ByIdQueryThrows(i)
    \/ StatusUpdateReturns(i) \/ StatusUpdateThrows(i)

\* the same server receiving at most MaxEvents events, with the fairness of
\* the event loop: a handler whose awaited call has answered is resumed
AnswerNext ==
    \/ Len(handlers) < MaxEvents /\ StoreCreateOrderEvent
    \/ \E i \in DOMAIN handlers : JupiterCreateOrderReturns(i)
    \/ \E i \in DOMAIN handlers : JupiterCreateOrderThrows(i)
    \/ \E i \in DOMAIN handlers : InsertReturns(i)
    \/ \E i \in DOMAIN handlers : InsertThrows(i)
    \/ Len(handlers) < MaxEvents /\ GetOrderStatusEvent
    \/ \E i \in DOMAIN handlers : StatusQueryReturns(i)
    \/ \E i \in DOMAIN handlers : StatusQueryThrows(i)
    \/ Len(handlers) < MaxEvents /\ CancelOrderEvent
    \/ \E i \in DOMAIN handlers : LookupReturns(i)
    \/ \E i \in DOMAIN handlers : LookupThrows(i)
    \/ \E i \in DOMAIN handlers : JupiterCancelReturns(i)
    \/ \E i \in DOMAIN handlers : JupiterCancelThrows(i)
    \/ \E i \in DOMAIN handlers : CancelUpdateReturns(i)
    \/ \E i \in DOMAIN handlers : CancelUpdateThrows(i)
    \/ Len(handlers) < MaxEvents /\ GetOrdersEvent
    \/ \E i \in DOMAIN handlers : OrdersQueryReturns(i)
    \/ \E i \in DOMAIN handlers : OrdersQueryThrows(i)
    \/ Len(handlers) < MaxEvents /\ GetOrderByIdEvent
    \/ \E i \in DOMAIN handlers : ByIdQueryReturns(i)
    \/ \E i \in DOMAIN handlers : ByIdQueryThrows(i)
    \/ Len(handlers) < MaxEvents /\ UpdateOrderStatusEvent
    \/ \E i \in DOMAIN handlers : StatusUpdateReturns(i)
    \/ \E i \in DOMAIN handlers : StatusUpdateThrows(i)

AnswerSpec ==
    /\ StoreInit
    /\ [][AnswerNext]_vars
    /\ \A i \in 1 .. MaxEvents : WF_vars(Received(i) /\ HandlerResumes(i))

(***************************************************************************)
(* DatabaseClient.query over the pg pool.  A call awaits pool.connect()    *)
(* (which hands out an idle client, waits while there is none, or throws), *)
(* awaits client.query, and releases the client in its finally block when  *)
(* the statement has returned or thrown.  Calls overlap at their awaits.   *)
(***************************************************************************)
PoolClients == 1 .. PoolSize

\* a call of query before its first await
NewQuery == [pc |-> "connecting", client |-> 0, released |-> 0]

PoolInit ==
    /\ pool = [checkedOut |-> {}, queries |-> <<>>]
    /\ CalcIdle
    /\ ConvIdle
    /\ CallsIdle
    /\ ServerIdle
    /\ AdvisorIdle

\* query(text, params) is called: const client = await this.getClient()
QueryCall ==
    /\ pool # Undefined
    /\ Len(pool.queries) < MaxQueries
    /\ pool' = [pool EXCEPT !.queries = Append(@, NewQuery)]
    /\ UNCHANGED notPoolVars

\* pool.connect() returns an idle client; client.query is sent
ConnectReturns(q) ==
    /\ pool # Undefined
    /\ pool.queries[q].pc = "connecting"
    /\ \E c \in PoolClients \ pool.checkedOut :
           pool' = [pool EXCEPT !.checkedOut = @ \cup {c},
                                !.queries[q].pc = "running",
                                !.queries[q].client = c]
    /\ UNCHANGED notPoolVars

\* pool.connect() throws: query throws before its try block
ConnectThrows(q) ==
    /\ pool # Undefined
    /\ pool.queries[q].pc = "connecting"
    /\ pool' = [pool EXCEPT !.queries[q].pc = "threw"]
    /\ UNCHANGED notPoolVars

\* await client.query returns: finally { client.release() }, return result
StatementReturns(q) ==
    /\ pool # Undefined
    /\ pool.queries[q].pc = "running"
    /\ pool' = [pool EXCEPT !.checkedOut = @ \ {pool.queries[q].client},
                            !.queries[q].pc = "returned",
                            !.queries[q].released = @ + 1]
    /\ UNCHANGED notPoolVars

\* a query without the finally block: a failing statement keeps its client
StatementThrows_NoRelease(q) ==
    /\ pool # Undefined
    /\ pool.queries[q].pc = "running"
    /\ pool' = [pool EXCEPT !.queries[q].pc = "threw"]
    /\ UNCHANGED notPoolVars

\* await client.query throws: finally { client.release() }, the error
\* propagates
StatementThrows(q) ==
    /\ pool # Undefined
    /\ pool.queries[q].pc = "running"
    /\ pool' = [pool EXCEPT !.checkedOut = @ \ {pool.queries[q].client},
                            !.queries[q].pc = "threw",
                            !.queries[q].released = @ + 1]
    /\ UNCHANGED notPoolVars

PoolNext ==
    \/ QueryCall
    \/ \E q \in DOMAIN pool.queries : ConnectReturns(q)
    \/ \E q \in DOMAIN pool.queries : ConnectThrows(q)
    \/ \E q \in DOMAIN pool.queries : StatementReturns(q)
    \/ \E q \in DOMAIN pool.queries : StatementThrows(q)

PoolSpec == PoolInit /\ [][PoolNext]_vars

(***************************************************************************)
(* AISuggestionService.generateTradingSuggestions: one call.  The price    *)
(* lookup returns a quote, returns null or throws; the AI call answers     *)
(* with a text or fails (network error, non-OK status, no choices), and a  *)
(* failure is replaced by the fallback text; processAISuggestion turns the *)
(* text into the suggestions.  A text is prose without a JSON object, a    *)
(* malformed object, or an object whose properties each may be missing.    *)
(* The suggestion prices are kept exact; the order of the prices and the   *)
(* ratio do not depend on the rounding of the doubles.                     *)
(***************************************************************************)
NaN == [nan |-> TRUE]

\* a number as the reduced fraction it equals
Fraction(x) == NumDiv(x, Norm(1, 0))

\* x || dflt for a numeric property of the parsed object
OrNumber(x, dflt) == IF Truthy(x) THEN x ELSE dflt

\* x || dflt for a string property ("" when missing)
OrString(x, dflt) == IF x # "" THEN x ELSE dflt

\* calculateRiskReward: arithmetic on a missing property gives NaN, and
\* NaN <= 0 is false
calculateRiskReward(entry, takeProfit, stopLoss) ==
    IF Undefined \in {entry, takeProfit, stopLoss} THEN NaN
    ELSE LET potentialProfit == NumSub(takeProfit, entry)
             potentialLoss == NumSub(entry, stopLoss)
         IN  IF NumLe(potentialLoss, Zero) THEN Fraction(Zero)
             ELSE NumDiv(potentialProfit, potentialLoss)

\* an object the text of an answer holds
SuggestionObject(entryPrice, takeProfitPrice, stopLossPrice) ==
    [action |-> "BUY",
     confidence |-> Norm(85, -2),
     entryPrice |-> entryPrice,
     takeProfitPrice |-> takeProfitPrice,
     stopLossPrice |-> stopLossPrice,
     positionSize |-> Norm(5, -1),
     reasoning |-> "",
     timeframe |-> ""]

\* getFallbackSuggestion
getFallbackSuggestion(request) ==
    [kind |-> "json",
     value |-> [action |-> "HOLD",
                confidence |-> Norm(6, -1),
                entryPrice |-> Norm(100, 0),
                takeProfitPrice |-> Norm(105, 0),
                stopLossPrice |-> Norm(95, 0),
                positionSize |-> Norm(1, -1),
                reasoning |-> "Market conditions unclear, recommend holding and monitoring",
                timeframe |-> request.timeframe]]

\* createDefaultSuggestion
createDefaultSuggestion(currentPrice, request) ==
    LET riskMultiplier == IF request.riskLevel = "aggressive" THEN Norm(15, -1)
                          ELSE IF request.riskLevel = "moderate" THEN Norm(1, 0)
                          ELSE Norm(5, -1)
    IN  [confidence |-> Norm(6, -1),
         action |-> "HOLD",
         entryPrice |-> currentPrice,
         takeProfitPrice |->
             NumMul(currentPrice, NumAdd(Norm(1, 0), NumMul(Norm(5, -2), riskMultiplier))),
         stopLossPrice |->
             NumMul(currentPrice, NumSub(Norm(1, 0), NumMul(Norm(3, -2), riskMultiplier))),
         positionSize |-> NumMul(Norm(1, -1), riskMultiplier),
         riskRewardRatio |-> Fraction(Norm(167, -2)),
         reasoning |-> "Default suggestion - monitor market conditions",
         timeframe |-> request.timeframe,
         riskLevel |-> request.riskLevel]

\* processAISuggestion
processAISuggestion(aiResponse, currentPrice, request) ==
    IF aiResponse.kind = "json"
        THEN LET suggestion == aiResponse.value
             IN  <<[confidence |-> OrNumber(suggestion.confidence, Norm(7, -1)),
                    action |-> OrString(suggestion.action, "HOLD"),
                    entryPrice |-> OrNumber(suggestion.entryPrice, currentPrice),
                    takeProfitPrice |->
                        OrNumber(suggestion.takeProfitPrice,
                                 NumMul(currentPrice, Norm(105, -2))),
                    stopLossPrice |->
                        OrNumber(suggestion.stopLossPrice,
                                 NumMul(currentPrice, Norm(95, -2))),
                    positionSize |-> OrNumber(suggestion.positionSize, Norm(1, -1)),
                    riskRewardRatio |->
                        calculateRiskReward(suggestion.entryPrice,
                                            suggestion.takeProfitPrice,
                                            suggestion.stopLossPrice),
                    reasoning |->
                        OrString(suggestion.reasoning,
                                 "AI-generated suggestion based on current market conditions"),
                    timeframe |-> OrString(suggestion.timeframe, request.timeframe),
                    riskLevel |-> request.riskLevel]>>
    ELSE <<createDefaultSuggestion(currentPrice, request)>>

\* requests, quotes and answers of the checked instance
SuggestionRequests ==
    {[tokenMint |-> "SOL", timeframe |-> "4h", riskLevel |-> riskLevel] :
        riskLevel \in {"conservative", "moderate", "aggressive"}}

QuotedPrices == {Norm(100, 0), Norm(150, 0)}

AIAnswers ==
    {[kind |-> "prose"], [kind |-> "malformed"]}
    \cup {[kind |-> "json", value |-> SuggestionObject(entry, takeProfit, stopLoss)] :
             entry \in {Undefined, Norm(90, 0), Norm(100, 0)},
             takeProfit \in {Undefined, Norm(90, 0), Norm(110, 0)},
             stopLoss \in {Undefined, Norm(80, 0), Norm(95, 0)}}

AdvisorInit ==
    /\ \E request \in SuggestionRequests :
           advisor = [request |-> request, pc |-> "awaitPrice",
                      currentPrice |-> Undefined, aiSuggestion |-> Undefined,
                      suggestions |-> <<>>]
    /\ CalcIdle
    /\ ConvIdle
    /\ CallsIdle
    /\ ServerIdle
    /\ PoolIdle

\* await this.priceService.getPriceWithExtraInfo(...) returns a quote
PriceLookupReturns ==
    /\ advisor # Undefined
    /\ advisor.pc = "awaitPrice"
    /\ \E price \in QuotedPrices :
           advisor' = [advisor EXCEPT !.pc = "awaitAI", !.currentPrice = price]
    /\ UNCHANGED notAdvisorVars

\* ... returns null ('Failed to fetch price data') or throws
PriceLookupFails ==
    /\ advisor # Undefined
    /\ advisor.pc = "awaitPrice"
    /\ advisor' = [advisor EXCEPT !.pc = "threw"]
    /\ UNCHANGED notAdvisorVars

\* getAISuggestion returns the text of the model's answer
AISuggestionReturns ==
    /\ advisor # Undefined
    /\ advisor.pc = "awaitAI"
    /\ \E answer \in AIAnswers :
           advisor' = [advisor EXCEPT
               !.pc = "returned",
               !.aiSuggestion = answer,
               !.suggestions = processAISuggestion(answer, advisor.currentPrice,
                                                   advisor.request)]
    /\ UNCHANGED notAdvisorVars

\* the AI call fails: getAISuggestion returns the fallback text
AISuggestionFallsBack ==
    /\ advisor # Undefined
    /\ advisor.pc = "awaitAI"
    /\ LET answer == getFallbackSuggestion(advisor.request)
       IN  advisor' = [advisor EXCEPT
               !.pc = "returned",
               !.aiSuggestion = answer,
               !.suggestions = processAISuggestion(answer, advisor.currentPrice,
                                                   advisor.request)]
    /\ UNCHANGED notAdvisorVars

AdvisorNext ==
    \/ PriceLookupReturns
    \/ PriceLookupFails
    \/ AISuggestionReturns
    \/ AISuggestionFallsBack

AdvisorSpec == AdvisorInit /\ [][AdvisorNext]_vars

(***************************************************************************)
(* Vocabulary of the properties.  A request quantity is a multiple of 0.5; *)
(* H(x) is that multiple, so amountToSell * buyPrice is                    *)
(* H(amountToSell) * H(buyPrice) / 4 and a product of three is over 8.     *)
(***************************************************************************)
Called == outcome # Undefined
Rejected == Called /\ outcome.threw
Accepted == Called /\ ~outcome.threw
RejectedWith(msg) == Called /\ outcome = [threw |-> TRUE, message |-> msg]

Supplied(x) == x # Undefined

H(x) == (x.m * Pow10(x.e + 1)) \div 5

\* the decimals a request stands for: its own, or the documented default
InputDecimalsOf(p) ==
    IF Supplied(p.inputDecimals) THEN p.inputDecimals.m * Pow10(p.inputDecimals.e)
    ELSE defaultInputDecimals
OutputDecimalsOf(p) ==
    IF Supplied(p.outputDecimals) THEN p.outputDecimals.m * Pow10(p.outputDecimals.e)
    ELSE defaultOutputDecimals

\* floor((n / d) * 10^k) as a whole number, for d a divisor of 1000
FloorScaled(n, d, k) ==
    IF k >= 3 THEN Norm(n * (1000 \div d), k - 3)
    ELSE Norm((n * Pow10(k)) \div d, 0)

\* the digit string of a whole number
Digits(x) == [plain |-> TRUE, num |-> x]

\* the number v is the fraction n / d (d a divisor of 1000)
IsFraction(v, n, d) == v.e >= -3 /\ Mant(v, -3) * d = n * 1000

\* (n / d) * 10^k is not whole: scaling truncates
Truncates(n, d, k) == k < 3 /\ (n * Pow10(k)) % d # 0

Legs(calc) ==
    {o \in {calc.buyOrder, calc.takeProfitOrder, calc.stopLossOrder} : o # Undefined}

ExitLegs(calc) == Legs(calc) \ {calc.buyOrder}

\* the take-profit leg the request p is specified to yield
TakeProfitLegAsSpecified(p, leg) ==
    LET n == H(p.amountToSell) * H(p.buyPrice) * H(p.takeProfitPrice) IN
    /\ leg.type = "TAKE_PROFIT"
    /\ leg.takingAmount = Digits(FloorScaled(n, 8, InputDecimalsOf(p)))
    /\ H(leg.targetPrice) = H(p.takeProfitPrice)
    /\ IsFraction(leg.expectedOutputAmount, n, 8)

\* two legs agree on everything but kind and description
SameAmounts(a, b) ==
    /\ a.makingAmount = b.makingAmount
    /\ a.takingAmount = b.takingAmount
    /\ a.targetPrice = b.targetPrice
    /\ a.expectedOutputAmount = b.expectedOutputAmount

IsThrow(r) == "threw" \in DOMAIN r

AmountMsg == "Amount to sell must be greater than 0"
BuyPriceMsg == "Buy price must be greater than 0"
CurrentPriceMsg == "Current price must be greater than 0"
TakeProfitMsg == "Take profit price must be greater than buy price"
StopLossMsg == "Stop loss price must be less than buy price"
TargetsMsg == "Take profit price must be greater than stop loss price"

\* the six rules of the data model, in the order validation is specified to apply them
RuleViolated(p) ==
    <<H(p.amountToSell) <= 0,
      H(p.buyPrice) <= 0,
      H(p.currentPrice) <= 0,
      Supplied(p.takeProfitPrice) /\ H(p.takeProfitPrice) <= H(p.buyPrice),
      Supplied(p.stopLossPrice) /\ H(p.stopLossPrice) >= H(p.buyPrice),
      /\ Supplied(p.takeProfitPrice)
      /\ Supplied(p.stopLossPrice)
      /\ H(p.takeProfitPrice) <= H(p.stopLossPrice)>>

RuleMsg == <<AmountMsg, BuyPriceMsg, CurrentPriceMsg, TakeProfitMsg, StopLossMsg, TargetsMsg>>

ViolatedRules(p) == {i \in 1 .. 6 : RuleViolated(p)[i]}

EarliestViolated(p) ==
    CHOOSE i \in ViolatedRules(p) : \A j \in ViolatedRules(p) : i <= j

PositiveBasics(p) ==
    H(p.amountToSell) > 0 /\ H(p.buyPrice) > 0 /\ H(p.currentPrice) > 0

(***************************************************************************)
(* C1.  Validation reports the earliest violated rule: whenever a request  *)
(* violates two or more of the six rules (amountToSell > 0, buyPrice > 0,  *)
(* currentPrice > 0, takeProfitPrice > buyPrice, stopLossPrice < buyPrice, *)
(* takeProfitPrice > stopLossPrice), calculateOrders throws the error of   *)
(* the first of them in that order.                                        *)
(***************************************************************************)
C1_EarliestViolatedRuleReported ==
    (Called /\ Cardinality(ViolatedRules(params)) >= 2)
        => RejectedWith(RuleMsg[EarliestViolated(params)])

C4_TakeProfitLeg ==
    (Accepted /\ Supplied(params.takeProfitPrice)) =>
        /\ outcome.takeProfitOrder # Undefined
        /\ TakeProfitLegAsSpecified(params, outcome.takeProfitOrder)

(***************************************************************************)
(* C5.  calculateStopLossOrder and calculateTakeProfitOrder are one        *)
(* computation of the target price: for the request at hand and every      *)
(* price p, the stop-loss leg for stopLossPrice = p and the take-profit    *)
(* leg for takeProfitPrice = p agree on makingAmount, takingAmount,        *)
(* targetPrice and expectedOutputAmount (and neither is computed when the  *)
(* other is not); the stop-loss leg calculateOrders returned is one such.  *)
(***************************************************************************)
C5_ExitLegsSameComputation ==
    Called =>
        /\ \A p \in Quantities :
               LET sl == calculateStopLossOrder([params EXCEPT !.stopLossPrice = p])
                   tp == calculateTakeProfitOrder([params EXCEPT !.takeProfitPrice = p])
               IN  IF IsThrow(sl) \/ IsThrow(tp)
                   THEN IsThrow(sl) /\ IsThrow(tp)
                   ELSE SameAmounts(sl, tp) /\ sl.type # tp.type
        /\ (Accepted /\ outcome.stopLossOrder # Undefined) =>
               SameAmounts(outcome.stopLossOrder,
                           calculateTakeProfitOrder(
                               [params EXCEPT !.takeProfitPrice = params.stopLossPrice]))

\* a returned stop-loss leg whose two amounts are both truncated and differ
C5_Witness ==
    /\ Accepted
    /\ outcome.stopLossOrder # Undefined
    /\ outcome.takeProfitOrder # Undefined
    /\ Truncates(H(params.amountToSell) * H(params.buyPrice), 4, OutputDecimalsOf(params))
    /\ Truncates(H(params.amountToSell) * H(params.buyPrice) * H(params.stopLossPrice), 8,
                 InputDecimalsOf(params))
    /\ outcome.stopLossOrder.makingAmount # outcome.stopLossOrder.takingAmount
    /\ InputDecimalsOf(params) # OutputDecimalsOf(params)

(***************************************************************************)
(* C6.  For an accepted request, summary.riskRewardRatio is present        *)
(* exactly when takeProfitPrice and stopLossPrice are both supplied, and   *)
(* then it is (takeProfitPrice - buyPrice) / (buyPrice - stopLossPrice)    *)
(* and strictly positive.                                                  *)
(***************************************************************************)
C6_RiskRewardRatio ==
    Accepted =>
        LET r == outcome.summary.riskRewardRatio IN
        /\ (r # Undefined) <=>
               (Supplied(params.takeProfitPrice) /\ Supplied(params.stopLossPrice))
        /\ (r # Undefined) =>
               /\ r.d > 0
               /\ r.n > 0
               /\ r.n * (H(params.buyPrice) - H(params.stopLossPrice))
                      = r.d * (H(params.takeProfitPrice) - H(params.buyPrice))

(***************************************************************************)
(* C7.  A request with amountToSell <= 0, buyPrice <= 0 or                 *)
(* currentPrice <= 0 makes calculateOrders throw: it returns no            *)
(* OrderCalculations.                                                      *)
(***************************************************************************)
C7_NonPositiveRejected ==
    (Called /\ ~PositiveBasics(params)) =>
        /\ Rejected
        /\ DOMAIN outcome = {"threw", "message"}
        /\ outcome.message \in {AmountMsg, BuyPriceMsg, CurrentPriceMsg}

\* rejected for currentPrice alone, a value the amounts never use
C7_Witness ==
    /\ Rejected
    /\ H(params.amountToSell) > 0
    /\ H(params.buyPrice) > 0
    /\ H(params.currentPrice) <= 0
    /\ ViolatedRules(params) = {3}

(***************************************************************************)
(* C8.  With amountToSell, buyPrice and currentPrice positive, a supplied  *)
(* takeProfitPrice <= buyPrice makes calculateOrders throw the take-profit *)
(* error.                                                                  *)
(***************************************************************************)
C8_TakeProfitNotAboveBuyRejected ==
    (/\ Called
     /\ PositiveBasics(params)
     /\ Supplied(params.takeProfitPrice)
     /\ H(params.takeProfitPrice) <= H(params.buyPrice))
        => RejectedWith(TakeProfitMsg)

(***************************************************************************)
(* C9.  With amountToSell, buyPrice and currentPrice positive and the      *)
(* take-profit absent or above buyPrice, a supplied                        *)
(* stopLossPrice >= buyPrice makes calculateOrders throw the stop-loss     *)
(* error.                                                                  *)
(***************************************************************************)
C9_StopLossNotBelowBuyRejected ==
    (/\ Called
     /\ PositiveBasics(params)
     /\ Supplied(params.takeProfitPrice) =>
            H(params.takeProfitPrice) > H(params.buyPrice)
     /\ Supplied(params.stopLossPrice)
     /\ H(params.stopLossPrice) >= H(params.buyPrice))
        => RejectedWith(StopLossMsg)

\* rejected for a stop-loss equal to buyPrice, with a valid take-profit
C9_Witness ==
    /\ RejectedWith(StopLossMsg)
    /\ PositiveBasics(params)
    /\ Supplied(params.takeProfitPrice)
    /\ H(params.takeProfitPrice) > H(params.buyPrice)
    /\ Supplied(params.stopLossPrice)
    /\ H(params.stopLossPrice) = H(params.buyPrice)

(***************************************************************************)
(* C10.  Every leg of an accepted request has makingAmount >= 0,           *)
(* takingAmount >= 0 and targetPrice > 0.                                  *)
(***************************************************************************)
C10_LegsNonNegative ==
    Accepted =>
        \A leg \in Legs(outcome) :
            /\ ParseInt(leg.makingAmount).m >= 0
            /\ ParseInt(leg.takingAmount).m >= 0
            /\ leg.targetPrice.m > 0

(***************************************************************************)
(* C11.  An accepted request always has a buy leg, has a take-profit leg   *)
(* exactly when takeProfitPrice is supplied and a stop-loss leg exactly    *)
(* when stopLossPrice is supplied, and summary.totalOrders is the number   *)
(* of legs present (1, 2 or 3).                                            *)
(***************************************************************************)
C11_LegsPresentAsSupplied ==
    Accepted =>
        /\ outcome.buyOrder # Undefined
        /\ (outcome.takeProfitOrder # Undefined) <=> Supplied(params.takeProfitPrice)
        /\ (outcome.stopLossOrder # Undefined) <=> Supplied(params.stopLossPrice)
        /\ outcome.summary.totalOrders
               = 1 + (IF outcome.takeProfitOrder # Undefined THEN 1 ELSE 0)
                   + (IF outcome.stopLossOrder # Undefined THEN 1 ELSE 0)

(***************************************************************************)
(* C12.  For an accepted request summary.totalInputAmount is the buy       *)
(* leg's makingAmount divided by 10^inputDecimals with the request's own   *)
(* inputDecimals: amountToSell truncated to inputDecimals places.          *)
(***************************************************************************)
C12_TotalInputAtRequestDecimals ==
    Accepted =>
        LET k == InputDecimalsOf(params)
            units == FloorScaled(H(params.amountToSell), 2, k)
        IN  /\ outcome.buyOrder.makingAmount = Digits(units)
            /\ outcome.summary.totalInputAmount = Norm(units.m, units.e - k)

(***************************************************************************)
(* Vocabulary of the conversion properties.  The exact values are taken    *)
(* in decimal arithmetic on the amount as written.                         *)
(***************************************************************************)
Scaling == scaled # Undefined
RoundTripped == restored # Undefined

\* floor(a * 10^d), exactly
ExactUnits(a, d) == MathFloor(NumMul(a, Norm(Pow10(d), 0)))

\* floor(a * 10^d) / 10^d, exactly: a truncated to d places
TruncatedTo(a, d) == LET u == ExactUnits(a, d) IN Norm(u.m, u.e - d)

\* floor(x * 10^d) for the double x, exactly (the product not rounded)
ExactUnitsOfDouble(x, d) ==
    IntegerOf(DoubleFloor([bits |-> MulPow10(x.bits, d), exp |-> x.exp]), 0)

\* on multiples of 0.5 the conversions over decimals and over doubles agree
ExactOnHalfUnits ==
    (literal # Undefined /\ (literal.e >= 0 \/ (literal.e = -1 /\ literal.m % 5 = 0))) =>
        /\ Scaling => scaled = convertToLamports(literal, Norm(scale, 0))
        /\ RoundTripped =>
               restored = ToDouble(convertFromLamports(scaled, Norm(scale, 0)))

(***************************************************************************)
(* C13.  Round trip: for a non-negative amount a and decimals d,           *)
(* convertFromLamports(convertToLamports(a, d), d) is                      *)
(* floor(a * 10^d) / 10^d, a truncated to d places (a itself when a has at *)
(* most d fractional digits).                                              *)
(***************************************************************************)
C13_RoundTripTruncates ==
    RoundTripped => restored = ToDouble(TruncatedTo(literal, scale))

(***************************************************************************)
(* C14.  convertToLamports truncates: its result s is the whole number     *)
(* with s <= a * 10^d < s + 1.                                             *)
(***************************************************************************)
C14_ScalingTruncates ==
    Scaling => scaled.num = ExactUnits(literal, scale)

\* the same with a read as the double the function receives: s never
\* exceeds the exact product of that double
ScalingNeverExceedsDouble ==
    Scaling => scaled.num = ExactUnitsOfDouble(ToDouble(literal), scale)

(***************************************************************************)
(* Vocabulary of the concurrent calls.                                     *)
(***************************************************************************)
Returned(i) == i \in DOMAIN frames /\ frames[i].pc = "returned"

\* call i was handed inputDecimals = 0, call j leaves it to the default
ZeroAgainstDefault(i, j) ==
    /\ frames[i].request.inputDecimals = Norm(0, 0)
    /\ frames[j].request.inputDecimals = Undefined

(***************************************************************************)
(* C15.  calculateOrders is deterministic and stateless: however the calls *)
(* in progress are interleaved, each returns what the same request returns *)
(* when run alone on a fresh instance, so two calls with identical         *)
(* requests return identical results, and the instance is left as          *)
(* constructed.                                                            *)
(***************************************************************************)
C15_CallsDoNotInteract ==
    /\ \A i \in DOMAIN frames :
           Returned(i) => frames[i].result = calculateOrders(frames[i].request)
    /\ \A i, j \in DOMAIN frames :
           (Returned(i) /\ Returned(j) /\ frames[i].request = frames[j].request)
               => frames[i].result = frames[j].result
    /\ frames # <<>> => calculator = NewCalculator

\* two accepted calls with different decimals have both returned
C15_Witness ==
    /\ Returned(1) /\ Returned(2)
    /\ ZeroAgainstDefault(1, 2)
    /\ ~frames[1].result.threw /\ ~frames[2].result.threw
    /\ frames[1].result.stopLossOrder # Undefined
    /\ frames[2].result.takeProfitOrder # Undefined

(***************************************************************************)
(* Vocabulary of the createOrder properties.                               *)
(***************************************************************************)
CreateOrderHandlers == {i \in DOMAIN handlers : handlers[i].event = "createOrder"}

\* what the calculator does with the request of handler i
FailsValidation(i) == validateInputs(CalculationParams(handlers[i].data)) # Undefined
ValidationMessage(i) == validateInputs(CalculationParams(handlers[i].data)).message
ComputedLegs(i) == calculateOrders(CalculationParams(handlers[i].data))

\* what has been done for handler i
EmittedTo(i) == SelectSeq(emitted, LAMBDA e : e.to = i)
GatewayCallsBy(i) == {k \in DOMAIN gatewayLog : gatewayLog[k].by = i}
RowsBy(i) == {r \in DOMAIN ordersTable : ordersTable[r].order_account \in GatewayCallsBy(i)}
Succeeded(i) == \E n \in DOMAIN emitted : emitted[n].to = i /\ emitted[n].payload.success

LegKinds == {"BUY", "TAKE_PROFIT", "STOP_LOSS"}
ExitKinds == {"TAKE_PROFIT", "STOP_LOSS"}

\* the request the row r was inserted for
RequestOfRow(r) == handlers[gatewayLog[ordersTable[r].order_account].by].data

\* the precisions the calculator scales a leg's makingAmount and takingAmount
\* by: a buy leg sells the input token, an exit leg sells the output token
MakingDecimalsOf(p, kind) ==
    IF kind = "BUY" THEN InputDecimalsOf(p) ELSE OutputDecimalsOf(p)
TakingDecimalsOf(p, kind) ==
    IF kind = "BUY" THEN OutputDecimalsOf(p) ELSE InputDecimalsOf(p)

\* the whole number of sub-units a plain digit string denotes, over 10^k
UnitsOver(digits, k) == Norm(digits.num.m, digits.num.e - k)

(***************************************************************************)
(* C16.  A createOrder request that fails validation has nothing computed  *)
(* or submitted for it: no gateway call, no inserted row, the step that    *)
(* receives it leaves the order store as it was, and the client is sent    *)
(* exactly one orderCreated with success = false and the validation        *)
(* message verbatim as error.                                              *)
(***************************************************************************)
C16_RejectedRequestDoesNothing ==
    /\ [](\A i \in CreateOrderHandlers :
              FailsValidation(i) =>
                  /\ GatewayCallsBy(i) = {}
                  /\ RowsBy(i) = {}
                  /\ EmittedTo(i) =
                         <<[to |-> i,
                            event |-> "orderCreated",
                            payload |-> [success |-> FALSE,
                                         error |-> ValidationMessage(i)]]>>)
    /\ [][\A i \in DOMAIN handlers' :
              (i \notin DOMAIN handlers
               /\ validateInputs(CalculationParams(handlers'[i].data)) # Undefined)
                  => /\ ordersTable' = ordersTable
                     /\ gatewayLog' = gatewayLog]_vars

\* a rejected request has been answered
C16_Witness ==
    \E i \in CreateOrderHandlers :
        /\ FailsValidation(i)
        /\ ValidationMessage(i) = BuyPriceMsg
        /\ EmittedTo(i) # <<>>
        /\ handlers[i].data.takeProfitPrice # Undefined

(***************************************************************************)
(* C17.  For the request currentPrice=100, buyPrice=95,                    *)
(* takeProfitPrice=110, stopLossPrice=85, amountToSell=1, inputDecimals=9, *)
(* outputDecimals=6, calculateOrders returns buyOrder with makingAmount    *)
(* 1000000000, takingAmount 95000000, targetPrice 95 and                   *)
(* expectedOutputAmount 95; takeProfitOrder with makingAmount 95000000,    *)
(* expectedOutputAmount 10450 and takingAmount 10450 * 10^9; stopLossOrder *)
(* with makingAmount 95000000 and expectedOutputAmount 8075; and summary   *)
(* totalOrders 3, totalInputAmount 1, totalExpectedOutput 95 and           *)
(* riskRewardRatio 1.5 (the fraction 3/2).                                 *)
(***************************************************************************)
C17_WorkedExample ==
    (Called /\ params = testOrderData) =>
        /\ ~outcome.threw
        /\ outcome.buyOrder.makingAmount = Digits(Norm(1000000000, 0))
        /\ outcome.buyOrder.takingAmount = Digits(Norm(95000000, 0))
        /\ outcome.buyOrder.targetPrice = Norm(95, 0)
        /\ outcome.buyOrder.expectedOutputAmount = Norm(95, 0)
        /\ outcome.takeProfitOrder # Undefined
        /\ outcome.takeProfitOrder.makingAmount = Digits(Norm(95000000, 0))
        /\ outcome.takeProfitOrder.expectedOutputAmount = Norm(10450, 0)
        /\ outcome.takeProfitOrder.takingAmount = Digits(Norm(10450, 9))
        /\ outcome.stopLossOrder # Undefined
        /\ outcome.stopLossOrder.makingAmount = Digits(Norm(95000000, 0))
        /\ outcome.stopLossOrder.expectedOutputAmount = Norm(8075, 0)
        /\ outcome.summary.totalOrders = 3
        /\ outcome.summary.totalInputAmount = Norm(1, 0)
        /\ outcome.summary.totalExpectedOutput = Norm(95, 0)
        /\ outcome.summary.riskRewardRatio = [n |-> 3, d |-> 2]

\* the worked example has been calculated
C17_Witness == Called /\ params = testOrderData /\ outcome.summary.totalOrders = 3

(***************************************************************************)
(* C18.  Every gateway submission of a createOrder request carries the     *)
(* request's inputMint as input token and outputMint as output token on    *)
(* the BUY leg, the two swapped on every TAKE_PROFIT and STOP_LOSS leg,    *)
(* and the request's maker and payer on every leg.                         *)
(***************************************************************************)
C18_LegDirections ==
    \A k \in DOMAIN gatewayLog :
        LET call == gatewayLog[k]
            data == handlers[call.by].data
        IN  /\ call.orderType = "BUY" =>
                   /\ call.request.inputMint = data.inputMint
                   /\ call.request.outputMint = data.outputMint
            /\ call.orderType \in ExitKinds =>
                   /\ call.request.inputMint = data.outputMint
                   /\ call.request.outputMint = data.inputMint
            /\ call.request.maker = data.maker
            /\ call.request.payer = data.payer

\* one request has had all three legs submitted
C18_Witness ==
    \E i \in CreateOrderHandlers :
        {gatewayLog[k].orderType : k \in GatewayCallsBy(i)} = LegKinds

(***************************************************************************)
(* C19.  Every persisted leg stores input_amount = makingAmount / 10^k     *)
(* and output_amount = takingAmount / 10^m with k and m the precisions the *)
(* calculator scaled that leg's makingAmount and takingAmount by, also     *)
(* when the request omits the decimals or gives them as 0.                 *)
(***************************************************************************)
C19_StoredAmountsAtCalculatorPrecision ==
    \A r \in DOMAIN ordersTable :
        LET row == ordersTable[r]
            leg == row.metadata.calculatedOrder
            p == CalculationParams(RequestOfRow(r))
        IN  /\ row.input_amount =
                   UnitsOver(leg.makingAmount, MakingDecimalsOf(p, row.order_type))
            /\ row.output_amount =
                   UnitsOver(leg.takingAmount, TakingDecimalsOf(p, row.order_type))

(***************************************************************************)
(* C20.  When a createOrder request succeeds, exactly one gateway          *)
(* createOrder call was issued and exactly one row with status PENDING     *)
(* was inserted for each computed leg and none for any other leg, and the  *)
(* orderCreated response lists summary.totalOrders orders.                 *)
(***************************************************************************)
C20_OneCallAndRowPerLeg ==
    \A i \in CreateOrderHandlers :
        Succeeded(i) =>
            /\ \A kind \in LegKinds :
                   LET expected ==
                           IF LegOf(ComputedLegs(i), kind) # Undefined THEN 1 ELSE 0
                   IN  /\ Cardinality({k \in GatewayCallsBy(i) :
                                          /\ gatewayLog[k].api = "createOrder"
                                          /\ gatewayLog[k].orderType = kind}) = expected
                       /\ Cardinality({r \in RowsBy(i) :
                                          /\ ordersTable[r].order_type = kind
                                          /\ ordersTable[r].status = "PENDING"}) = expected
            /\ Cardinality(GatewayCallsBy(i)) = Cardinality(Legs(ComputedLegs(i)))
            /\ Cardinality(RowsBy(i)) = Cardinality(Legs(ComputedLegs(i)))
            /\ \A n \in DOMAIN emitted :
                   (emitted[n].to = i /\ emitted[n].payload.success) =>
                       Len(emitted[n].payload.data.orders)
                           = emitted[n].payload.data.calculations.summary.totalOrders

\* a request with both exit legs has succeeded
C20_Witness ==
    \E i \in CreateOrderHandlers :
        /\ Succeeded(i)
        /\ Cardinality(RowsBy(i)) = 3

(***************************************************************************)
(* C23.  A request that omits inputDecimals and/or outputDecimals yields   *)
(* exactly the same OrderCalculations (or the same rejection) as the same  *)
(* request with inputDecimals = 9 and/or outputDecimals = 6 written out.   *)
(***************************************************************************)
WithDecimalsWrittenOut(p) ==
    [p EXCEPT !.inputDecimals = IF @ = Undefined THEN Norm(9, 0) ELSE @,
              !.outputDecimals = IF @ = Undefined THEN Norm(6, 0) ELSE @]

OmitsDecimals(p) == p.inputDecimals = Undefined \/ p.outputDecimals = Undefined

C23_OmittedDecimalsAreDefaults ==
    Called /\ OmitsDecimals(params)
        => outcome = calculateOrders(WithDecimalsWrittenOut(params))

\* an accepted request with both exit legs that omits both precisions
C23_Witness ==
    /\ Accepted
    /\ params.inputDecimals = Undefined
    /\ params.outputDecimals = Undefined
    /\ outcome.summary.totalOrders = 3

(***************************************************************************)
(* C27.  The take-profit-above-stop-loss check is never the first violated *)
(* rule: every request that passes the five earlier checks with both       *)
(* takeProfitPrice and stopLossPrice present has takeProfitPrice >         *)
(* stopLossPrice, so calculateOrders never raises 'Take profit price must  *)
(* be greater than stop loss price'.                                       *)
(***************************************************************************)
PassesFirstFiveChecks(p) ==
    \/ validateInputs(p) = Undefined
    \/ validateInputs(p).message = TargetsMsg

TargetsErrorNeverRaised == ~RejectedWith(TargetsMsg)

C27_TargetsCheckNeverFirst ==
    /\ TargetsErrorNeverRaised
    /\ /\ Called
       /\ PassesFirstFiveChecks(params)
       /\ Supplied(params.takeProfitPrice)
       /\ Supplied(params.stopLossPrice)
       => NumLt(params.stopLossPrice, params.takeProfitPrice)

(***************************************************************************)
(* Vocabulary of the claims about the events on stored orders              *)
(***************************************************************************)
DocumentedStatuses == {"PENDING", "EXECUTED", "CANCELLED", "EXPIRED"}
TerminalStatuses == {"EXECUTED", "CANCELLED", "EXPIRED"}

Done(i) == Received(i) /\ handlers[i].pc = "done"
HandlersOf(event) == {i \in DOMAIN handlers : handlers[i].event = event}

\* the response event of each request event
AnswerTo ==
    [createOrder |-> "orderCreated",
     cancelOrder |-> "orderCancelled",
     getOrderStatus |-> "orderStatus",
     getOrders |-> "ordersList",
     getOrderById |-> "orderDetails",
     updateOrderStatus |-> "orderStatusUpdated"]

\* handler i has emitted exactly one event, the response to its request
AnsweredOnce(i) ==
    /\ Received(i)
    /\ Len(EmittedTo(i)) = 1
    /\ EmittedTo(i)[1].event = AnswerTo[handlers[i].event]
    /\ EmittedTo(i)[1].payload.success \in BOOLEAN

\* the row with an id (0 when no row has it)
RowWithId(orderId) ==
    IF \E r \in DOMAIN ordersTable : ordersTable[r].id = orderId
        THEN CHOOSE r \in DOMAIN ordersTable : ordersTable[r].id = orderId
    ELSE 0

\* handler i takes a step
Steps(i) == Received(i) /\ handlers'[i] # handlers[i]

\* what the step emits (one event at most)
NewlyEmitted == SubSeq(emitted', Len(emitted) + 1, Len(emitted'))

(***************************************************************************)
(* C21.  After any sequence of createOrder, cancelOrder and                *)
(* updateOrderStatus events, the status of every persisted order record is *)
(* one of PENDING, EXECUTED, CANCELLED, EXPIRED.                           *)
(***************************************************************************)
C21_StatusAmongDocumented ==
    \A r \in DOMAIN ordersTable : ordersTable[r].status \in DocumentedStatuses

(***************************************************************************)
(* C22.  Every successful ordersList response contains only orders         *)
(* matching the walletAddress and status filters of its getOrders request  *)
(* (when given), contains at most limit orders (100 when limit is omitted) *)
(* whichever filters are set, and lists them most recently created first.  *)
(***************************************************************************)
C22_OrdersListFilteredBoundedSorted ==
    \A n \in DOMAIN emitted :
        emitted[n].event = "ordersList" /\ emitted[n].payload.success =>
            LET filters == handlers[emitted[n].to].data
                listed == emitted[n].payload.data.orders
            IN  /\ \A k \in DOMAIN listed :
                       /\ "walletAddress" \in DOMAIN filters
                              => listed[k].wallet_address = filters.walletAddress
                       /\ "status" \in DOMAIN filters
                              => listed[k].status = filters.status
                /\ Len(listed) <= (IF "limit" \in DOMAIN filters
                                       THEN filters.limit ELSE 100)
                /\ \A k \in 1 .. Len(listed) - 1 : listed[k].id > listed[k + 1].id

(***************************************************************************)
(* C24.  An order's status only moves from PENDING to a terminal status:   *)
(* once a record is EXECUTED, CANCELLED or EXPIRED, no step of a           *)
(* cancelOrder or updateOrderStatus handler, in any interleaving with      *)
(* other handlers, changes its status again.                               *)
(***************************************************************************)
C24_TerminalStatusIsFinal ==
    [][\A r \in DOMAIN ordersTable :
          ordersTable[r].status \in TerminalStatuses
              => ordersTable'[r].status = ordersTable[r].status]_vars

(***************************************************************************)
(* C25.  cancelOrder sets a record to CANCELLED only after the gateway     *)
(* cancel call for that record's order account has returned successfully:  *)
(* a step of a cancelOrder handler changes the table only by setting the   *)
(* row of its order id to CANCELLED, after its gateway call for that row's *)
(* order account has answered, and emits success; for an unknown order id  *)
(* the lookup that answers is followed by 'Order not found' with no        *)
(* gateway call and no store change; when the gateway cancel call fails    *)
(* the table is left unchanged and the client receives success = false.    *)
(***************************************************************************)
C25_CancelledOnlyAfterGatewayCancel ==
    [][\A i \in DOMAIN handlers :
          handlers[i].event = "cancelOrder" /\ Steps(i) =>
              LET h == handlers[i]
                  r == RowWithId(h.data)
              IN  /\ ordersTable' # ordersTable =>
                         /\ h.pc = "awaitCancelUpdate"
                         /\ h.cancelResponse # Undefined
                         /\ r # 0
                         /\ \E k \in DOMAIN gatewayLog :
                                /\ gatewayLog[k].by = i
                                /\ gatewayLog[k].api = "cancelOrder"
                                /\ gatewayLog[k].request.orderAccount
                                       = ordersTable[r].order_account
                                /\ h.cancelResponse = CancelResponse(k)
                         /\ \A q \in DOMAIN ordersTable :
                                ordersTable'[q].status =
                                    IF q = r THEN "CANCELLED" ELSE ordersTable[q].status
                         /\ NewlyEmitted = <<Emit(i, "orderCancelled",
                                [success |-> TRUE, orderId |-> h.data,
                                 data |-> [cancelledAt |-> "now"]])>>
                  /\ h.pc = "awaitLookup" /\ r = 0 =>
                         /\ gatewayLog' = gatewayLog
                         /\ ordersTable' = ordersTable
                         /\ NewlyEmitted \in
                                {<<Emit(i, "orderCancelled",
                                        CancelFailure(h.data, message))>> :
                                    message \in {"Order not found", DatabaseError}}
                  /\ h.pc = "awaitCancel" /\ handlers'[i].cancelResponse = Undefined =>
                         /\ ordersTable' = ordersTable
                         /\ Len(NewlyEmitted) = 1
                         /\ NewlyEmitted[1].to = i
                         /\ ~NewlyEmitted[1].payload.success]_vars

\* a cancellation that went through: the gateway answered, the row of the
\* order id is CANCELLED, the client was told so
C25_Witness ==
    \E i \in HandlersOf("cancelOrder") :
        /\ Done(i)
        /\ handlers[i].cancelResponse # Undefined
        /\ RowWithId(handlers[i].data) # 0
        /\ ordersTable[RowWithId(handlers[i].data)].status = "CANCELLED"
        /\ EmittedTo(i)[1].payload.success

(***************************************************************************)
(* C26.  The legs of one createOrder request are submitted strictly in the *)
(* order BUY, TAKE_PROFIT, STOP_LOSS, each leg's record inserted only      *)
(* after its own gateway call returned and before the next leg is          *)
(* submitted; if the gateway call or the insert of leg k fails, no later   *)
(* leg is submitted, the legs before k stay submitted and persisted as     *)
(* PENDING (no cancellation, no rollback), and the client receives         *)
(* success = false.                                                        *)
(***************************************************************************)
\* the legs calculateOrders returned, in the order of the claim
LegSequence(calc) ==
    <<"BUY">>
    \o (IF calc.takeProfitOrder # Undefined THEN <<"TAKE_PROFIT">> ELSE <<>>)
    \o (IF calc.stopLossOrder # Undefined THEN <<"STOP_LOSS">> ELSE <<>>)

IsPrefix(a, b) == Len(a) <= Len(b) /\ a = SubSeq(b, 1, Len(a))

\* the gateway calls a handler made, in the order made
CallsOf(i) == SelectSeq(gatewayLog, LAMBDA g : g.by = i)

\* the rows inserted for a handler's gateway calls, in the order inserted
RowsOf(i) == SelectSeq(ordersTable, LAMBDA row : row.order_account \in GatewayCallsBy(i))

Failed(i) == \E n \in DOMAIN emitted : emitted[n].to = i /\ ~emitted[n].payload.success

LegsInOrder(i) ==
    LET calls == CallsOf(i)
        rows == RowsOf(i)
    IN  /\ \A k \in DOMAIN calls : calls[k].api = "createOrder"
        /\ Len(calls) > 0 =>
               IsPrefix([k \in DOMAIN calls |-> calls[k].orderType],
                        LegSequence(ComputedLegs(i)))
        /\ Len(rows) <= Len(calls)
        /\ Len(calls) <= Len(rows) + 1
        /\ \A k \in DOMAIN rows :
               /\ rows[k].order_type = calls[k].orderType
               /\ gatewayLog[rows[k].order_account] = calls[k]
               /\ rows[k].status = "PENDING"
        /\ Failed(i) =>
               /\ Done(i)
               /\ Len(calls) > 0 => Len(rows) = Len(calls) - 1
        /\ Succeeded(i) =>
               /\ Done(i)
               /\ Len(rows) = Len(calls)
               /\ Len(calls) = Len(LegSequence(ComputedLegs(i)))

C26_LegsInOrderNoRollback ==
    /\ [](\A i \in CreateOrderHandlers : LegsInOrder(i))
    /\ [][\A i \in CreateOrderHandlers :
              Done(i) => /\ CallsOf(i)' = CallsOf(i)
                         /\ RowsOf(i)' = RowsOf(i)
                         /\ gatewayLog' = gatewayLog \/ Last(gatewayLog').by # i]_vars

\* a request whose second or third leg failed: the earlier legs are
\* submitted and persisted, the client was told success = false
C26_Witness ==
    \E i \in CreateOrderHandlers :
        /\ Done(i)
        /\ Failed(i)
        /\ Len(CallsOf(i)) >= 2
        /\ Len(RowsOf(i)) = Len(CallsOf(i)) - 1

(***************************************************************************)
(* C29.  When the price lookup succeeds, generateTradingSuggestions        *)
(* returns at least one suggestion even if the AI call fails or answers    *)
(* with unparseable text, and every returned suggestion satisfies          *)
(* takeProfitPrice > entryPrice > stopLossPrice > 0 with riskRewardRatio   *)
(* equal to (takeProfitPrice - entryPrice) / (entryPrice - stopLossPrice)  *)
(* of its own fields, so that calculateOrders accepts it as a request.     *)
(***************************************************************************)
\* the fraction ratio equals num / den
RatioIs(ratio, num, den) ==
    /\ ratio # NaN
    /\ LET k == Min(num.e, den.e)
       IN  ratio.n * Mant(den, k) = ratio.d * Mant(num, k)

\* the suggestion used as a request of the calculator
AsRequest(suggestion, currentPrice) ==
    [currentPrice |-> currentPrice,
     buyPrice |-> suggestion.entryPrice,
     takeProfitPrice |-> suggestion.takeProfitPrice,
     stopLossPrice |-> suggestion.stopLossPrice,
     amountToSell |-> suggestion.positionSize,
     inputDecimals |-> Undefined,
     outputDecimals |-> Undefined]

WellFormedSuggestion(suggestion, currentPrice) ==
    /\ NumLt(suggestion.entryPrice, suggestion.takeProfitPrice)
    /\ NumLt(suggestion.stopLossPrice, suggestion.entryPrice)
    /\ NumLt(Zero, suggestion.stopLossPrice)
    /\ RatioIs(suggestion.riskRewardRatio,
               NumSub(suggestion.takeProfitPrice, suggestion.entryPrice),
               NumSub(suggestion.entryPrice, suggestion.stopLossPrice))
    /\ validateInputs(AsRequest(suggestion, currentPrice)) = Undefined

SuggestionsAlwaysReturned ==
    advisor # Undefined =>
        /\ advisor.pc = "threw" => advisor.currentPrice = Undefined
        /\ advisor.pc = "returned" => Len(advisor.suggestions) >= 1

C29_SuggestionsWellFormed ==
    /\ SuggestionsAlwaysReturned
    /\ advisor # Undefined /\ advisor.pc = "returned" =>
           \A k \in DOMAIN advisor.suggestions :
               WellFormedSuggestion(advisor.suggestions[k], advisor.currentPrice)

(***************************************************************************)
(* C30.  DatabaseClient.query releases every pool client it acquires       *)
(* exactly once, whether the statement succeeds or throws: a client is     *)
(* checked out exactly while the call that acquired it awaits its          *)
(* statement, a finished call that acquired a client has released it once  *)
(* and a call that acquired none has released none, so after any sequence  *)
(* of queries (failing ones included) no client remains checked out.       *)
(***************************************************************************)
Finished(q) == pool.queries[q].pc \in {"returned", "threw"}
Acquired(q) == pool.queries[q].client # 0

C30_EveryClientReleasedOnce ==
    pool # Undefined =>
        /\ pool.checkedOut =
               {pool.queries[q].client :
                   q \in {x \in DOMAIN pool.queries : pool.queries[x].pc = "running"}}
        /\ \A q \in DOMAIN pool.queries :
               pool.queries[q].released =
                   IF Finished(q) /\ Acquired(q) THEN 1 ELSE 0
        /\ \A q, x \in DOMAIN pool.queries :
               /\ q # x
               /\ pool.queries[q].pc = "running"
               /\ pool.queries[x].pc = "running"
               => pool.queries[q].client # pool.queries[x].client
        /\ (\A q \in DOMAIN pool.queries : Finished(q)) => pool.checkedOut = {}

\* every query of a full sequence finished, one whose statement threw and
\* one whose connect threw among them
C30_Witness ==
    /\ pool # Undefined
    /\ Len(pool.queries) = MaxQueries
    /\ \A q \in DOMAIN pool.queries : Finished(q)
    /\ \E q \in DOMAIN pool.queries : pool.queries[q].pc = "threw" /\ Acquired(q)
    /\ \E q \in DOMAIN pool.queries : pool.queries[q].pc = "threw" /\ ~Acquired(q)
    /\ \E q \in DOMAIN pool.queries : pool.queries[q].pc = "returned"

(***************************************************************************)
(* C28.  Every createOrder, cancelOrder, getOrderStatus, getOrders,        *)
(* getOrderById and updateOrderStatus event received is eventually         *)
(* answered with exactly one response event of the matching name, with     *)
(* success = true or false, provided each collaborator call returns or     *)
(* throws: a handler never emits more than one event, it eventually has    *)
(* emitted its response, and nothing is emitted to it afterwards.          *)
(***************************************************************************)
C28_EveryEventAnswered ==
    /\ [](\A i \in DOMAIN handlers : Len(EmittedTo(i)) <= 1)
    /\ \A i \in 1 .. MaxEvents : Received(i) ~> AnsweredOnce(i)
    /\ [][\A i \in DOMAIN handlers : AnsweredOnce(i) => AnsweredOnce(i)']_vars

\* all events of a behaviour answered, one of them with a failure
C28_Witness ==
    /\ Len(handlers) = MaxEvents
    /\ \A i \in DOMAIN handlers : AnsweredOnce(i)
    /\ \E n \in DOMAIN emitted :
           emitted[n].event = "orderCancelled" /\ ~emitted[n].payload.success

====
